---- MODULE Spec2Model ----
(***************************************************************************)
(* Transcript aggregation of the interview client (AvatarView): the        *)
(* speech-recognition events of the avatar session are merged into a       *)
(* buffer, and a finalize countdown hands the trimmed buffer to            *)
(* onUserTranscript.  Two capture modes: push-to-talk (manual) and         *)
(* automatic (silence-triggered).                                          *)
(*                                                                         *)
(* Time is counted in ticks of 500 ms.  A timer is a countdown of ticks;   *)
(* it is due at 0, and the clock does not advance past a due timer (the    *)
(* browser's event loop runs due timers before later ones).  Handlers run  *)
(* to completion, one at a time.                                           *)
(*                                                                         *)
(* A text is a sequence of one-character strings.                          *)
(*                                                                         *)
(* The avatar's speak-started and speak-ended events alternate, starting   *)
(* with speak-started.  The capture mode is chosen before the session and  *)
(* does not change while AvatarView is mounted.  The push-to-talk effect   *)
(* runs once per change of isPushToTalkActive.                             *)
(*                                                                         *)
(* onUserTranscript is InterviewLayout's callback; it calls onSendMessage, *)
(* which is useInterview.sendCandidateMessage, once per call.  emits and   *)
(* lastDelivered record these calls.  outcome, cancelLen, freshRelease,    *)
(* refined and everReleased are history variables: the program does not   *)
(* read them.                                                              *)
(***************************************************************************)
EXTENDS Naturals, Integers, Sequences, FiniteSets, TLC

VARIABLES
    pushToTalkEnabled,     \* prop pushToTalkEnabled (fixed for the session)
    prevPushToTalk,        \* prevPushToTalkRef: the gate as the effect last saw it
    pttReleased,           \* pttReleasedRef
    isSpeaking,            \* isSpeakingRef
    currentTranscript,     \* currentTranscriptRef: the accumulation buffer
    lastSentTranscript,    \* lastSentTranscriptRef: the last-finalized marker
    lastTranscriptAge,     \* Date.now() - lastTranscriptTimeRef, in ticks, capped
    sendTimers,            \* live setTimeout timers that finalize
    graceTimers,           \* live speak-ended setTimeout timers: ticks left, oldest first
    avatarSpeaking,        \* the avatar is between speak-started and speak-ended
    emits,                 \* onUserTranscript calls since the last gate acquisition
    lastDelivered,         \* text of the latest onUserTranscript call
    outcome,               \* how the latest sendTranscript call ended
    cancelLen,             \* longest buffer at a countdown cancellation, this episode
    freshRelease,          \* gate released on a non-empty buffer, no event accepted since
    refined,               \* the one event accepted since the release, if it extended the buffer
    unmounted              \* the cleanup of AvatarView's mount effect has run

\* what the handlers did, for the properties to speak of
VARIABLES
    everReleased           \* the gate was released at least once since the mount

histVars == <<everReleased>>

\* the push-to-talk merge, taken alone
VARIABLES
    mergeBuf,              \* currentTranscriptRef after the latest accepted event
    mergePrev,             \* currentTranscriptRef before it
    mergeText,             \* the text of that event
    mergeCount             \* events accepted since the gate was acquired

mergeVars == <<mergeBuf, mergePrev, mergeText, mergeCount>>

\* useWebSocket (the version that keeps activeSessionIdRef)
VARIABLES
    sessionId,             \* option sessionId: the caller's current session identifier
    sockets,               \* the transports not yet closed: [id, sid, readyState]
    wsRef,                 \* wsRef.current: NoSocket, a transport's id, or ClosedSocket
    activeSessionId,       \* activeSessionIdRef.current
    isConnected,           \* state isConnected of the hook
    callerConnected,       \* what onConnect / onDisconnect last told the caller
    reconnectTimers,       \* live reconnection timers
    delivered,             \* messages handed to an open transport
    dropped,               \* messages send() refused
    disconnected,          \* disconnect() ran and the caller has not called connect() since
    awaiting,              \* timers of dropped transports whose reconnection is still due
    lastSid,               \* identifier of the transport opened last
    lastOp                 \* the latest connect or disconnect and how it ended

\* what the events of the transports told the caller
VARIABLES
    received,              \* the message onMessage was last called with
    frameFault,            \* "dropped": the latest frame was unparseable; "recovered": one was delivered since
    errorNotified          \* onError was called since the hook mounted

inVars == <<received, frameFault, errorNotified>>

aggVars == <<pushToTalkEnabled, prevPushToTalk, pttReleased, isSpeaking,
             currentTranscript, lastSentTranscript, lastTranscriptAge,
             sendTimers, graceTimers, avatarSpeaking, emits, lastDelivered,
             outcome, cancelLen, freshRelease, refined, unmounted, histVars,
             mergeVars>>

\* the hook's own variables
hookRest == <<sockets, wsRef, activeSessionId, isConnected, callerConnected,
              reconnectTimers, delivered, dropped, disconnected, awaiting,
              lastSid, lastOp, inVars>>

wsVars == <<sessionId, hookRest>>

\* useInterview: the client's session state (sessionId is declared above)
VARIABLES
    phase,                 \* state.phase
    stateTranscript,       \* state.transcript
    isPushToTalkActive,    \* state.isPushToTalkActive
    evaluationScore,       \* state.evaluationScore
    passed,                \* state.passed
    sent,                  \* the latest message the client handed to send()
    forwardOnly,           \* every change of state.phase, this session, was one step forward
    unknownSeen            \* "ignored": the latest message was of no known kind; "handled": a known one came since

clientVars == <<phase, stateTranscript, isPushToTalkActive, evaluationScore,
                passed, sent, forwardOnly, unknownSeen>>

\* the orchestrator's session, as the specification describes it
VARIABLES
    orchPhase,             \* the session's current phase
    exchanges,             \* candidate turns counted in each phase
    turns,                 \* number of turns appended to the session's transcript
    transitions,           \* the transition events emitted, in order
    lastSignal             \* the latest inbound signal and what became of it

orchVars == <<orchPhase, exchanges, turns, transitions, lastSignal>>

vars == <<aggVars, wsVars, clientVars, orchVars>>

----------------------------------------------------------------------------
(* Bounds of the model *)

\* longest buffer the recognition events are allowed to build
MaxBufLen == 8

\* the count of onUserTranscript calls saturates here
MaxEmits == 2

\* speak-ended timers live at the same time
MaxGraceTimers == 2

(* Program constants, in ticks of 500 ms *)

\* setTimeout(..., 500) of AVATAR_SPEAK_ENDED
GraceTicks == 1

\* setTimeout(sendTranscript, 1000) of sendTranscript
DeferTicks == 2

\* setTimeout(..., 2000) of push-to-talk release and of the rearm
PttTicks == 4

\* setTimeout(..., 3000) of automatic mode
AutoTicks == 6

\* now - lastTranscriptTimeRef.current > 5000
GapTicks == 10

\* substring(0, 20) of the merge
PrefixLen == 20

\* text.trim().length < 2
MinEventLen == 2

\* transcript.length < 3
MinSendLen == 3

----------------------------------------------------------------------------
(* Texts *)

\* the texts the recognizer delivers
Texts ==
    { <<>>,
      <<" ", "a">>,
      <<"a", "b">>,
      <<"a", "b", " ">>,
      <<"a", "b", "c">>,
      <<"A", "B", "c", " ">>,
      <<"c", "d", "e">> }

IsSpace(c) == c = " "

ToLowerChar(c) ==
    CASE c = "A" -> "a"
      [] c = "B" -> "b"
      [] c = "C" -> "c"
      [] c = "D" -> "d"
      [] c = "E" -> "e"
      [] OTHER -> c

ToLowerCase(s) == [i \in 1..Len(s) |-> ToLowerChar(s[i])]

Min(a, b) == IF a < b THEN a ELSE b
Max(a, b) == IF a > b THEN a ELSE b

\* s.substring(0, n)
Substring0(s, n) == SubSeq(s, 1, Min(Len(s), n))

\* s.startsWith(p)
StartsWith(s, p) == Len(p) <= Len(s) /\ SubSeq(s, 1, Len(p)) = p

\* s.trimStart()
RECURSIVE TrimStart(_)
TrimStart(s) ==
    IF s = <<>> \/ ~IsSpace(Head(s)) THEN s ELSE TrimStart(Tail(s))

\* s.trimEnd()
RECURSIVE TrimEnd(_)
TrimEnd(s) ==
    IF s = <<>> \/ ~IsSpace(s[Len(s)])
    THEN s ELSE TrimEnd(SubSeq(s, 1, Len(s) - 1))

\* s.trim()
Trim(s) == TrimEnd(TrimStart(s))

\* the event is compared with the whole buffer, not with its first PrefixLen characters
MergePtt_WholeBuffer(current, text) ==
    IF current # <<>>
       /\ ~StartsWith(ToLowerCase(text), ToLowerCase(current))
    THEN current \o <<" ">> \o text
    ELSE IF Len(text) > Len(current) THEN text ELSE current

\* a new segment replaces the buffer instead of being appended
MergePtt_ReplaceSegment(current, text) ==
    IF current # <<>>
       /\ ~StartsWith(ToLowerCase(text), Substring0(ToLowerCase(current), PrefixLen))
    THEN text
    ELSE IF Len(text) > Len(current) THEN text ELSE current

\* the push-to-talk merge of an accepted event into the buffer
MergePtt(current, text) ==
    IF current # <<>>
       /\ ~StartsWith(ToLowerCase(text), Substring0(ToLowerCase(current), PrefixLen))
    THEN current \o <<" ">> \o text
    ELSE IF Len(text) > Len(current) THEN text ELSE current

\* only the empty text is noise
TooShortEvent_EmptyOnly(text) == text = <<>>

\* the noise filter of the event handler
TooShortEvent(text) == text = <<>> \/ Len(Trim(text)) < MinEventLen

\* the texts of the recognizer that are empty or shorter than MinEventLen once
\* trimmed
NoiseTexts ==
    {text \in Texts : text = <<>> \/ Len(Trim(text)) < MinEventLen}

\* the event passes the speaking guard and the noise filter
Accepted(text) == ~isSpeaking /\ ~TooShortEvent(text)

----------------------------------------------------------------------------
(* Timers *)

\* a live finalize timer: the callback it runs, the ticks left, and whether
\* sendTimeoutRef.current holds its handle
SendTimer(kind, left) == [kind |-> kind, left |-> left, tracked |-> TRUE]

TimerKinds == {"release", "rearm", "auto", "defer"}

\* clearTimeout(sendTimeoutRef.current)
ClearTimeout(ts) == {t \in ts : ~t.tracked}

\* sendTimeoutRef.current = setTimeout(callback, ticks)
SetTimeout(ts, kind, ticks) ==
    {[t EXCEPT !.tracked = FALSE] : t \in ts} \cup {SendTimer(kind, ticks)}

\* a finalize countdown is pending
Pending == sendTimers # {}

MaxAge == GapTicks + 1

----------------------------------------------------------------------------
(* The session channel before its first connect *)

\* no session identifier: null, undefined or the empty string
NoSession == "none"

SessionIds == {"s1", "s2"}

\* wsRef.current is null
NoSocket == 0

\* wsRef.current is a transport that has closed
ClosedSocket == -1

\* passed: null; a payload that is not read
Null == "null"

\* onMessage was not called yet
NoMessage == [type |-> "none"]

\* the refs and the state of a freshly mounted useWebSocket
WsIdle ==
    /\ sessionId = NoSession
    /\ sockets = {}
    /\ wsRef = NoSocket
    /\ activeSessionId = NoSession
    /\ isConnected = FALSE
    /\ callerConnected = FALSE
    /\ reconnectTimers = {}
    /\ delivered = {}
    /\ dropped = {}
    /\ disconnected = FALSE
    /\ awaiting = {}
    /\ lastSid = NoSession
    /\ lastOp = [op |-> "none", result |-> "none"]
    /\ received = NoMessage
    /\ frameFault = "none"
    /\ errorNotified = FALSE

----------------------------------------------------------------------------
(* The client's session state before a session, and the phases *)

\* enum InterviewPhase, in the order of the valid transitions
PhaseOrder == <<"IDLE", "GREETING", "TECHNICAL", "EVALUATION", "COMPLETED">>

Phases == {PhaseOrder[i] : i \in 1..Len(PhaseOrder)}

\* evaluationScore: null
NoScore == -1

\* nothing was handed to send() yet
NothingSent == [type |-> "none"]

\* initialState of useInterview (sessionId is part of WsIdle)
ClientIdle ==
    /\ phase = "IDLE"
    /\ stateTranscript = <<>>
    /\ isPushToTalkActive = FALSE
    /\ evaluationScore = NoScore
    /\ passed = Null
    /\ sent = NothingSent
    /\ forwardOnly = TRUE
    /\ unknownSeen = "none"

\* a session the orchestrator has created and not started
OrchIdle ==
    /\ orchPhase = "IDLE"
    /\ exchanges = [p \in {"GREETING", "TECHNICAL"} |-> 0]
    /\ turns = 0
    /\ transitions = <<>>
    /\ lastSignal = [signal |-> "none", result |-> "none"]

----------------------------------------------------------------------------
(* Init: the refs of a freshly mounted AvatarView *)

Init ==
    /\ WsIdle
    /\ ClientIdle
    /\ OrchIdle
    /\ pushToTalkEnabled \in BOOLEAN
    /\ prevPushToTalk = FALSE
    /\ pttReleased = FALSE
    /\ isSpeaking = FALSE
    /\ currentTranscript = <<>>
    /\ lastSentTranscript = <<>>
    /\ lastTranscriptAge = MaxAge
    /\ sendTimers = {}
    /\ graceTimers = <<>>
    /\ avatarSpeaking = FALSE
    /\ emits = 0
    /\ lastDelivered = <<>>
    /\ outcome = "none"
    /\ cancelLen = 0
    /\ freshRelease = FALSE
    /\ refined = <<>>
    /\ unmounted = FALSE
    /\ everReleased = FALSE
    /\ mergeBuf = <<>>
    /\ mergePrev = <<>>
    /\ mergeText = <<>>
    /\ mergeCount = 0

----------------------------------------------------------------------------
(* sendTranscript, run by a finalize timer; ts are the timers still live *)

\* a finalize that finds the avatar speaking gives up without a new timer
SendTranscript_NoReschedule(ts) ==
    LET transcript == Trim(currentTranscript) IN
    IF transcript = <<>> \/ Len(transcript) < MinSendLen
    THEN /\ currentTranscript' = <<>>
         /\ sendTimers' = ts
         /\ outcome' = "short"
         /\ UNCHANGED <<lastSentTranscript, emits, lastDelivered>>
    ELSE IF isSpeaking
    THEN /\ sendTimers' = ts
         /\ outcome' = "deferred"
         /\ UNCHANGED <<currentTranscript, lastSentTranscript, emits,
                        lastDelivered>>
    ELSE IF transcript = lastSentTranscript
    THEN /\ currentTranscript' = <<>>
         /\ sendTimers' = ts
         /\ outcome' = "duplicate"
         /\ UNCHANGED <<lastSentTranscript, emits, lastDelivered>>
    ELSE /\ lastSentTranscript' = transcript
         /\ currentTranscript' = <<>>
         /\ sendTimers' = ts
         /\ outcome' = "sent"
         /\ emits' = Min(emits + 1, MaxEmits)
         /\ lastDelivered' = transcript

\* only an empty buffer is discarded; the minimum length is not checked
SendTranscript_NoMinimum(ts) ==
    LET transcript == Trim(currentTranscript) IN
    IF transcript = <<>>
    THEN /\ currentTranscript' = <<>>
         /\ sendTimers' = ts
         /\ outcome' = "short"
         /\ UNCHANGED <<lastSentTranscript, emits, lastDelivered>>
    ELSE IF isSpeaking
    THEN /\ sendTimers' = SetTimeout(ts, "defer", DeferTicks)
         /\ outcome' = "deferred"
         /\ UNCHANGED <<currentTranscript, lastSentTranscript, emits,
                        lastDelivered>>
    ELSE IF transcript = lastSentTranscript
    THEN /\ currentTranscript' = <<>>
         /\ sendTimers' = ts
         /\ outcome' = "duplicate"
         /\ UNCHANGED <<lastSentTranscript, emits, lastDelivered>>
    ELSE /\ lastSentTranscript' = transcript
         /\ currentTranscript' = <<>>
         /\ sendTimers' = ts
         /\ outcome' = "sent"
         /\ emits' = Min(emits + 1, MaxEmits)
         /\ lastDelivered' = transcript

\* the handle of the rescheduled timer is not stored in sendTimeoutRef
SendTranscript_DeferUntracked(ts) ==
    LET transcript == Trim(currentTranscript) IN
    IF transcript = <<>> \/ Len(transcript) < MinSendLen
    THEN /\ currentTranscript' = <<>>
         /\ sendTimers' = ts
         /\ outcome' = "short"
         /\ UNCHANGED <<lastSentTranscript, emits, lastDelivered>>
    ELSE IF isSpeaking
    THEN /\ sendTimers' = ts \cup {[kind |-> "defer", left |-> DeferTicks,
                                   tracked |-> FALSE]}
         /\ outcome' = "deferred"
         /\ UNCHANGED <<currentTranscript, lastSentTranscript, emits,
                        lastDelivered>>
    ELSE IF transcript = lastSentTranscript
    THEN /\ currentTranscript' = <<>>
         /\ sendTimers' = ts
         /\ outcome' = "duplicate"
         /\ UNCHANGED <<lastSentTranscript, emits, lastDelivered>>
    ELSE /\ lastSentTranscript' = transcript
         /\ currentTranscript' = <<>>
         /\ sendTimers' = ts
         /\ outcome' = "sent"
         /\ emits' = Min(emits + 1, MaxEmits)
         /\ lastDelivered' = transcript

\* the comparison with lastSentTranscriptRef is missing
SendTranscript_NoDuplicateCheck(ts) ==
    LET transcript == Trim(currentTranscript) IN
    IF transcript = <<>> \/ Len(transcript) < MinSendLen
    THEN /\ currentTranscript' = <<>>
         /\ sendTimers' = ts
         /\ outcome' = "short"
         /\ UNCHANGED <<lastSentTranscript, emits, lastDelivered>>
    ELSE IF isSpeaking
    THEN /\ sendTimers' = SetTimeout(ts, "defer", DeferTicks)
         /\ outcome' = "deferred"
         /\ UNCHANGED <<currentTranscript, lastSentTranscript, emits,
                        lastDelivered>>
    ELSE /\ lastSentTranscript' = transcript
         /\ currentTranscript' = <<>>
         /\ sendTimers' = ts
         /\ outcome' = "sent"
         /\ emits' = Min(emits + 1, MaxEmits)
         /\ lastDelivered' = transcript

\* the trimmed buffer is handed on untrimmed
SendTranscript_NoTrim(ts) ==
    LET transcript == currentTranscript IN
    IF transcript = <<>> \/ Len(transcript) < MinSendLen
    THEN /\ currentTranscript' = <<>>
         /\ sendTimers' = ts
         /\ outcome' = "short"
         /\ UNCHANGED <<lastSentTranscript, emits, lastDelivered>>
    ELSE IF isSpeaking
    THEN /\ sendTimers' = SetTimeout(ts, "defer", DeferTicks)
         /\ outcome' = "deferred"
         /\ UNCHANGED <<currentTranscript, lastSentTranscript, emits,
                        lastDelivered>>
    ELSE IF transcript = lastSentTranscript
    THEN /\ currentTranscript' = <<>>
         /\ sendTimers' = ts
         /\ outcome' = "duplicate"
         /\ UNCHANGED <<lastSentTranscript, emits, lastDelivered>>
    ELSE /\ lastSentTranscript' = transcript
         /\ currentTranscript' = <<>>
         /\ sendTimers' = ts
         /\ outcome' = "sent"
         /\ emits' = Min(emits + 1, MaxEmits)
         /\ lastDelivered' = transcript

SendTranscript(ts) ==
    LET transcript == Trim(currentTranscript) IN
    IF transcript = <<>> \/ Len(transcript) < MinSendLen
    THEN /\ currentTranscript' = <<>>
         /\ sendTimers' = ts
         /\ outcome' = "short"
         /\ UNCHANGED <<lastSentTranscript, emits, lastDelivered>>
    ELSE IF isSpeaking
    THEN /\ sendTimers' = SetTimeout(ts, "defer", DeferTicks)
         /\ outcome' = "deferred"
         /\ UNCHANGED <<currentTranscript, lastSentTranscript, emits,
                        lastDelivered>>
    ELSE IF transcript = lastSentTranscript
    THEN /\ currentTranscript' = <<>>
         /\ sendTimers' = ts
         /\ outcome' = "duplicate"
         /\ UNCHANGED <<lastSentTranscript, emits, lastDelivered>>
    ELSE /\ lastSentTranscript' = transcript
         /\ currentTranscript' = <<>>
         /\ sendTimers' = ts
         /\ outcome' = "sent"
         /\ emits' = Min(emits + 1, MaxEmits)
         /\ lastDelivered' = transcript

\* the release and rearm callbacks leave pttReleasedRef set
SendTimerFire_KeepReleased(t) ==
    /\ t \in sendTimers
    /\ t.left = 0
    /\ pttReleased' = pttReleased
    /\ SendTranscript(sendTimers \ {t})
    /\ UNCHANGED <<pushToTalkEnabled, prevPushToTalk, isSpeaking,
                   lastTranscriptAge, graceTimers, avatarSpeaking,
                   cancelLen, freshRelease, refined>>
    /\ UNCHANGED everReleased
    /\ UNCHANGED <<unmounted, mergeVars, wsVars, clientVars, orchVars>>

\* a due finalize timer runs its callback
SendTimerFire(t) ==
    /\ t \in sendTimers
    /\ t.left = 0
    /\ pttReleased' = IF t.kind \in {"release", "rearm"} THEN FALSE ELSE pttReleased
    /\ SendTranscript(sendTimers \ {t})
    /\ UNCHANGED <<pushToTalkEnabled, prevPushToTalk, isSpeaking,
                   lastTranscriptAge, graceTimers, avatarSpeaking,
                   cancelLen, freshRelease, refined>>
    /\ UNCHANGED everReleased
    /\ UNCHANGED <<unmounted, mergeVars, wsVars, clientVars, orchVars>>

----------------------------------------------------------------------------
(* The push-to-talk effect *)

\* isPushToTalkActive goes from true to false
PushToTalkRelease ==
    /\ pushToTalkEnabled
    /\ prevPushToTalk
    /\ pttReleased' = TRUE
    /\ sendTimers' = SetTimeout(ClearTimeout(sendTimers), "release", PttTicks)
    /\ prevPushToTalk' = FALSE
    /\ freshRelease' = (currentTranscript # <<>>)
    /\ refined' = <<>>
    /\ UNCHANGED <<pushToTalkEnabled, isSpeaking, currentTranscript,
                   lastSentTranscript, lastTranscriptAge, graceTimers,
                   avatarSpeaking, emits, lastDelivered, outcome, cancelLen>>
    /\ everReleased' = TRUE
    /\ UNCHANGED <<unmounted, mergeVars, wsVars, clientVars, orchVars>>

\* the acquisition leaves the pending countdown running
PushToTalkPress_KeepCountdown ==
    /\ pushToTalkEnabled
    /\ ~prevPushToTalk
    /\ currentTranscript' = <<>>
    /\ lastSentTranscript' = <<>>
    /\ pttReleased' = FALSE
    /\ sendTimers' = sendTimers
    /\ prevPushToTalk' = TRUE
    /\ emits' = 0
    /\ outcome' = "none"
    /\ cancelLen' = 0
    /\ freshRelease' = FALSE
    /\ refined' = <<>>
    /\ UNCHANGED <<pushToTalkEnabled, isSpeaking, lastTranscriptAge,
                   graceTimers, avatarSpeaking, lastDelivered>>
    /\ UNCHANGED everReleased
    /\ UNCHANGED <<unmounted, mergeVars, wsVars, clientVars, orchVars>>

\* isPushToTalkActive goes from false to true
PushToTalkPress ==
    /\ pushToTalkEnabled
    /\ ~prevPushToTalk
    /\ currentTranscript' = <<>>
    /\ lastSentTranscript' = <<>>
    /\ pttReleased' = FALSE
    /\ sendTimers' = ClearTimeout(sendTimers)
    /\ prevPushToTalk' = TRUE
    /\ emits' = 0
    /\ outcome' = "none"
    /\ cancelLen' = 0
    /\ freshRelease' = FALSE
    /\ refined' = <<>>
    /\ UNCHANGED <<pushToTalkEnabled, isSpeaking, lastTranscriptAge,
                   graceTimers, avatarSpeaking, lastDelivered>>
    /\ UNCHANGED everReleased
    /\ UNCHANGED <<unmounted, mergeVars, wsVars, clientVars, orchVars>>

----------------------------------------------------------------------------
(* The USER_TRANSCRIPTION handler *)

\* the accepted event cancels a live countdown
Cancels == \E t \in sendTimers : t.tracked

\* text is a longer refinement that begins with the buffer
Refines(text, current) ==
    /\ current # <<>>
    /\ Len(text) > Len(current)
    /\ StartsWith(ToLowerCase(text), Substring0(ToLowerCase(current), PrefixLen))

\* the countdown of the release is not cleared before the rearm
TranscriptionPtt_NoClear(text) ==
    /\ currentTranscript' = MergePtt(currentTranscript, text)
    /\ IF pttReleased
       THEN /\ sendTimers' = SetTimeout(sendTimers, "rearm", PttTicks)
            /\ cancelLen' = IF Cancels
                            THEN Max(cancelLen, Len(currentTranscript'))
                            ELSE cancelLen
       ELSE UNCHANGED <<sendTimers, cancelLen>>
    /\ freshRelease' = FALSE
    /\ refined' = IF freshRelease /\ pttReleased /\ Refines(text, currentTranscript)
                  THEN text ELSE <<>>
    /\ UNCHANGED <<lastSentTranscript, lastTranscriptAge>>

TranscriptionPtt(text) ==
    /\ currentTranscript' = MergePtt(currentTranscript, text)
    /\ IF pttReleased
       THEN /\ sendTimers' = SetTimeout(ClearTimeout(sendTimers), "rearm", PttTicks)
            /\ cancelLen' = IF Cancels
                            THEN Max(cancelLen, Len(currentTranscript'))
                            ELSE cancelLen
       ELSE UNCHANGED <<sendTimers, cancelLen>>
    /\ freshRelease' = FALSE
    /\ refined' = IF freshRelease /\ pttReleased /\ Refines(text, currentTranscript)
                  THEN text ELSE <<>>
    /\ UNCHANGED <<lastSentTranscript, lastTranscriptAge>>

\* the last-finalized marker is kept whatever the gap
TranscriptionAuto_KeepMarker(text) ==
    /\ currentTranscript' = text
    /\ lastSentTranscript' = lastSentTranscript
    /\ lastTranscriptAge' = 0
    /\ sendTimers' = SetTimeout(ClearTimeout(sendTimers), "auto", AutoTicks)
    /\ cancelLen' = IF Cancels
                    THEN Max(cancelLen, Len(currentTranscript'))
                    ELSE 0
    /\ UNCHANGED <<freshRelease, refined>>

\* the pending countdown is not cleared before the new one is armed
TranscriptionAuto_NoClear(text) ==
    /\ currentTranscript' = text
    /\ lastSentTranscript' = IF lastTranscriptAge > GapTicks
                             THEN <<>> ELSE lastSentTranscript
    /\ lastTranscriptAge' = 0
    /\ sendTimers' = SetTimeout(sendTimers, "auto", AutoTicks)
    /\ cancelLen' = IF Cancels
                    THEN Max(cancelLen, Len(currentTranscript'))
                    ELSE 0
    /\ UNCHANGED <<freshRelease, refined>>

TranscriptionAuto(text) ==
    /\ currentTranscript' = text
    /\ lastSentTranscript' = IF lastTranscriptAge > GapTicks
                             THEN <<>> ELSE lastSentTranscript
    /\ lastTranscriptAge' = 0
    /\ sendTimers' = SetTimeout(ClearTimeout(sendTimers), "auto", AutoTicks)
    /\ cancelLen' = IF Cancels
                    THEN Max(cancelLen, Len(currentTranscript'))
                    ELSE 0
    /\ UNCHANGED <<freshRelease, refined>>

UserTranscription(text) ==
    /\ IF isSpeaking \/ TooShortEvent(text)
       THEN UNCHANGED <<currentTranscript, lastSentTranscript,
                        lastTranscriptAge, sendTimers, cancelLen,
                        freshRelease, refined>>
       ELSE IF pushToTalkEnabled
            THEN TranscriptionPtt(text)
            ELSE TranscriptionAuto(text)
    /\ Len(currentTranscript') <= MaxBufLen
    /\ UNCHANGED <<pushToTalkEnabled, prevPushToTalk, pttReleased, isSpeaking,
                   graceTimers, avatarSpeaking, emits, lastDelivered, outcome>>
    /\ UNCHANGED everReleased
    /\ UNCHANGED <<unmounted, mergeVars, wsVars, clientVars, orchVars>>

----------------------------------------------------------------------------
(* The avatar's speak events *)

AvatarSpeakStarted ==
    /\ ~avatarSpeaking
    /\ avatarSpeaking' = TRUE
    /\ isSpeaking' = TRUE
    /\ UNCHANGED <<pushToTalkEnabled, prevPushToTalk, pttReleased,
                   currentTranscript, lastSentTranscript, lastTranscriptAge,
                   sendTimers, graceTimers, emits, lastDelivered, outcome,
                   cancelLen, freshRelease, refined>>
    /\ UNCHANGED everReleased
    /\ UNCHANGED <<unmounted, mergeVars, wsVars, clientVars, orchVars>>

AvatarSpeakEnded ==
    /\ avatarSpeaking
    /\ avatarSpeaking' = FALSE
    /\ Len(graceTimers) < MaxGraceTimers
    /\ graceTimers' = Append(graceTimers, GraceTicks)
    /\ UNCHANGED <<pushToTalkEnabled, prevPushToTalk, pttReleased, isSpeaking,
                   currentTranscript, lastSentTranscript, lastTranscriptAge,
                   sendTimers, emits, lastDelivered, outcome, cancelLen,
                   freshRelease, refined>>
    /\ UNCHANGED everReleased
    /\ UNCHANGED <<unmounted, mergeVars, wsVars, clientVars, orchVars>>

\* the callback of the speak-ended timer
GraceTimerFire ==
    /\ graceTimers # <<>>
    /\ Head(graceTimers) = 0
    /\ graceTimers' = Tail(graceTimers)
    /\ isSpeaking' = FALSE
    /\ UNCHANGED <<pushToTalkEnabled, prevPushToTalk, pttReleased,
                   currentTranscript, lastSentTranscript, lastTranscriptAge,
                   sendTimers, avatarSpeaking, emits, lastDelivered, outcome,
                   cancelLen, freshRelease, refined>>
    /\ UNCHANGED everReleased
    /\ UNCHANGED <<unmounted, mergeVars, wsVars, clientVars, orchVars>>

----------------------------------------------------------------------------
(* Time: 500 ms pass; no timer is due *)

Tick ==
    /\ \A t \in sendTimers : t.left > 0
    /\ \A i \in 1..Len(graceTimers) : graceTimers[i] > 0
    /\ sendTimers' = {[t EXCEPT !.left = @ - 1] : t \in sendTimers}
    /\ graceTimers' = [i \in 1..Len(graceTimers) |-> graceTimers[i] - 1]
    /\ lastTranscriptAge' = Min(lastTranscriptAge + 1, MaxAge)
    /\ UNCHANGED <<pushToTalkEnabled, prevPushToTalk, pttReleased, isSpeaking,
                   currentTranscript, lastSentTranscript, avatarSpeaking,
                   emits, lastDelivered, outcome, cancelLen, freshRelease,
                   refined>>
    /\ UNCHANGED everReleased
    /\ UNCHANGED <<unmounted, mergeVars, wsVars, clientVars, orchVars>>

----------------------------------------------------------------------------

Next ==
    \/ \E text \in Texts : UserTranscription(text)
    \/ \E t \in sendTimers : SendTimerFire(t)
    \/ PushToTalkPress
    \/ PushToTalkRelease
    \/ AvatarSpeakStarted
    \/ AvatarSpeakEnded
    \/ GraceTimerFire
    \/ Tick

Spec == Init /\ [][Next]_vars

TypeOK ==
    /\ pushToTalkEnabled \in BOOLEAN
    /\ prevPushToTalk \in BOOLEAN
    /\ pttReleased \in BOOLEAN
    /\ isSpeaking \in BOOLEAN
    /\ avatarSpeaking \in BOOLEAN
    /\ Len(currentTranscript) <= MaxBufLen
    /\ lastTranscriptAge \in 0..MaxAge
    /\ \A t \in sendTimers : t.kind \in TimerKinds /\ t.left \in 0..AutoTicks
    /\ Len(graceTimers) <= MaxGraceTimers
    /\ \A i \in 1..Len(graceTimers) : graceTimers[i] \in 0..GraceTicks
    /\ emits \in 0..MaxEmits
    /\ cancelLen \in 0..MaxBufLen
    /\ outcome \in {"none", "short", "deferred", "duplicate", "sent"}
    /\ freshRelease \in BOOLEAN
    /\ everReleased \in BOOLEAN

----------------------------------------------------------------------------
(* Fairness: a due timer runs, and time passes *)

\* the texts the recognizer delivers in the runs checked for progress: one
\* the finalize discards as too short, one it hands on, and one that is
\* another segment
FairTexts ==
    { <<"a", "b">>,
      <<"a", "b", "c">>,
      <<"c", "d", "e">> }

FairNext ==
    \/ \E text \in FairTexts : UserTranscription(text)
    \/ \E t \in sendTimers : SendTimerFire(t)
    \/ PushToTalkPress
    \/ PushToTalkRelease
    \/ AvatarSpeakStarted
    \/ AvatarSpeakEnded
    \/ GraceTimerFire
    \/ Tick

FairSpec ==
    /\ Init /\ [][FairNext]_vars
    /\ WF_vars(Tick)
    /\ WF_vars(GraceTimerFire)
    /\ WF_vars(\E t \in sendTimers : SendTimerFire(t))

----------------------------------------------------------------------------
(* Steps the properties speak of *)

\* a finalize timer runs sendTranscript
FinalizeStep == \E t \in sendTimers : SendTimerFire(t)

\* onUserTranscript is called
EmitStep == FinalizeStep /\ outcome' = "sent"

\* the handler runs on an event it accepts
AcceptStep(text) == Accepted(text) /\ UserTranscription(text)

\* a speak-ended event is less than the grace period old
InGraceWindow == \E i \in 1..Len(graceTimers) : graceTimers[i] > 0

\* the only pending countdown is a full one of n ticks
ArmedFull(ts, n) == ts # {} /\ \A t \in ts : t.left = n /\ t.tracked

----------------------------------------------------------------------------
(* C1: no recognition event that arrives while the avatar is between      *)
(* speak-started and speak-ended changes the buffer or arms a countdown.   *)
C1_DiscardWhileAvatarSpeaks ==
    [][\A text \in Texts :
          (avatarSpeaking /\ UserTranscription(text))
              => UNCHANGED <<currentTranscript, sendTimers>>]_vars

(* C2: in push-to-talk mode at most one utterance is handed to            *)
(* onUserTranscript between one gate acquisition and the next.             *)
C2_OneEmitPerEpisode == pushToTalkEnabled => emits <= 1

\* an utterance was emitted after a release, and an event was accepted after it
C2_Witness ==
    /\ pushToTalkEnabled
    /\ ~prevPushToTalk
    /\ emits = 1
    /\ outcome = "sent"
    /\ currentTranscript # <<>>

(* C3, as claimed: whenever an accepted event cancelled a pending         *)
(* countdown, in either mode, the buffer finalized for the episode is not  *)
(* shorter than the buffer was at the cancellation.                        *)
C3_NeverShorter ==
    [][EmitStep => Len(currentTranscript) >= cancelLen]_vars

(* C3, amended: in push-to-talk mode the buffer never gets shorter from a  *)
(* cancellation to the finalize, and the finalized text is that buffer,    *)
(* trimmed.                                                                *)
C3_PttBufferNeverShorter ==
    [][pushToTalkEnabled =>
          /\ \A text \in Texts :
                AcceptStep(text) => Len(currentTranscript') >= Len(currentTranscript)
          /\ FinalizeStep => Len(currentTranscript) >= cancelLen
          /\ EmitStep => lastDelivered' = Trim(currentTranscript)]_vars

\* push-to-talk: an event cancelled the countdown, then the buffer was emitted
C3_Witness ==
    /\ pushToTalkEnabled
    /\ cancelLen >= MinSendLen
    /\ outcome = "sent"
    /\ emits = 1
    /\ Len(lastDelivered) >= MinSendLen

(* C4: in push-to-talk mode the release emits nothing and arms a full      *)
(* countdown, and every event accepted while a finalize is pending         *)
(* (original, rearmed or deferred) cancels it and arms a full countdown.   *)
C4_AcceptedEventRearms ==
    [][pushToTalkEnabled =>
          /\ PushToTalkRelease =>
                /\ ArmedFull(sendTimers', PttTicks)
                /\ UNCHANGED <<emits, lastDelivered, currentTranscript>>
          /\ \A text \in Texts :
                (Pending /\ AcceptStep(text)) => ArmedFull(sendTimers', PttTicks)]_vars

(* C5, as claimed: push-to-talk, the gate is released on buffer B and the  *)
(* one event accepted before the countdown elapses is a longer refinement  *)
(* T that begins with B: once the countdown has run, exactly one utterance *)
(* was handed on, and its text is T.                                       *)
C5_RefinementSentAsIs ==
    (pushToTalkEnabled /\ refined # <<>> /\ ~Pending)
        => (emits = 1 /\ outcome = "sent" /\ lastDelivered = refined)

(* C5, amended: in that scenario the buffer is T while the countdown runs; *)
(* once it has run, exactly one utterance was handed on, with text T       *)
(* trimmed, if T trimmed has at least MinSendLen characters, and none      *)
(* otherwise.                                                              *)
C5_RefinementSentTrimmed ==
    (pushToTalkEnabled /\ refined # <<>>) =>
        IF Pending
        THEN emits = 0 /\ currentTranscript = refined
        ELSE IF Len(Trim(refined)) >= MinSendLen
        THEN emits = 1 /\ outcome = "sent" /\ lastDelivered = Trim(refined)
        ELSE emits = 0 /\ outcome = "short"

\* the refinement, longer than its trimmed form, was finalized
C5_Witness ==
    /\ pushToTalkEnabled
    /\ refined # <<>>
    /\ ~Pending
    /\ emits = 1
    /\ lastDelivered = Trim(refined)
    /\ lastDelivered # refined

(* C6: a gate acquisition empties the buffer, clears the last-finalized    *)
(* marker and leaves no finalize countdown pending, deferred ones          *)
(* included.                                                               *)
C6_PressResets ==
    [][PushToTalkPress =>
          /\ currentTranscript' = <<>>
          /\ lastSentTranscript' = <<>>
          /\ sendTimers' = {}]_vars

\* the gate was acquired again after an utterance had been emitted
C6_Witness ==
    /\ prevPushToTalk
    /\ lastDelivered # <<>>
    /\ currentTranscript = <<>>
    /\ lastSentTranscript = <<>>
    /\ sendTimers = {}
    /\ emits = 0

(* C7: whenever a finalize countdown fires on a non-empty buffer while the *)
(* speaking flag is set, nothing is emitted, the buffer is kept and the    *)
(* finalize is rescheduled.                                                *)
C7_DeferWhateverTheBuffer ==
    [][(isSpeaking /\ FinalizeStep /\ currentTranscript # <<>>) =>
          /\ UNCHANGED <<emits, lastDelivered, currentTranscript>>
          /\ sendTimers' # {}]_vars

(* C8: a finalize whose trimmed buffer equals the last-finalized marker    *)
(* emits nothing; the same text is emitted twice in a row only if the      *)
(* marker was reset in between, and the marker is reset only by a gate     *)
(* acquisition or, in automatic mode, by an accepted event more than       *)
(* GapTicks after the previous one.                                        *)
C8_NoRepeatedText ==
    /\ [][(FinalizeStep /\ Trim(currentTranscript) = lastSentTranscript) =>
             UNCHANGED <<emits, lastDelivered, lastSentTranscript>>]_vars
    /\ [][(EmitStep /\ lastDelivered' = lastDelivered) =>
             lastSentTranscript = <<>>]_vars
    /\ [][(lastSentTranscript # <<>> /\ lastSentTranscript' = <<>>) =>
             \/ PushToTalkPress
             \/ /\ ~pushToTalkEnabled
                /\ lastTranscriptAge > GapTicks
                /\ \E text \in Texts : AcceptStep(text)]_vars

\* a finalize of the text emitted last was discarded
C8_Witness ==
    /\ outcome = "duplicate"
    /\ lastSentTranscript # <<>>
    /\ lastDelivered = lastSentTranscript
    /\ currentTranscript = <<>>

(* C9: no recognition event that arrives less than the grace period after  *)
(* a speak-ended event changes the buffer or arms a countdown.             *)
C9_DiscardInGraceWindow ==
    [][\A text \in Texts :
          (InGraceWindow /\ UserTranscription(text))
              => UNCHANGED <<currentTranscript, sendTimers>>]_vars

(* C10: in automatic mode every accepted event leaves exactly one pending  *)
(* countdown, a full one, so a finalize runs only AutoTicks or more after  *)
(* the last accepted event; the gate is never held.                        *)
C10_AutoRearm ==
    [][~pushToTalkEnabled =>
          /\ \A text \in Texts :
                AcceptStep(text) => sendTimers' = {SendTimer("auto", AutoTicks)}
          /\ FinalizeStep => lastTranscriptAge >= AutoTicks
          /\ ~prevPushToTalk]_vars

\* automatic mode: events cancelled the countdown, then the utterance was emitted
C10_Witness ==
    /\ ~pushToTalkEnabled
    /\ outcome = "sent"
    /\ cancelLen > 0
    /\ lastTranscriptAge >= AutoTicks
    /\ lastTranscriptAge <= GapTicks

(* C29: in automatic mode an accepted event makes its text the buffer and  *)
(* restarts the gap; it clears the last-finalized marker if the gap since  *)
(* the previous accepted event is more than GapTicks (5 s), and leaves it  *)
(* otherwise.  An event the speaking guard or the noise filter discards    *)
(* leaves buffer, marker and gap as they are.                              *)
C29_AutoReplacesAndResets ==
    [][~pushToTalkEnabled =>
          \A text \in Texts :
              /\ AcceptStep(text) =>
                    /\ currentTranscript' = text
                    /\ lastTranscriptAge' = 0
                    /\ lastSentTranscript' =
                           (IF lastTranscriptAge > GapTicks
                            THEN <<>> ELSE lastSentTranscript)
              /\ (~Accepted(text) /\ UserTranscription(text)) =>
                    UNCHANGED <<currentTranscript, lastTranscriptAge,
                                lastSentTranscript>>]_vars

\* automatic mode: an utterance was emitted, and an event more than GapTicks
\* after the previous one has cleared the marker
C29_Witness ==
    /\ ~pushToTalkEnabled
    /\ lastDelivered # <<>>
    /\ lastSentTranscript = <<>>
    /\ currentTranscript # <<>>
    /\ lastTranscriptAge = 0

(* C30: an utterance handed to onUserTranscript is the buffer as it is     *)
(* when the finalize runs, trimmed, and has MinSendLen characters or more. *)
(* A finalize on a buffer that is shorter than that once trimmed hands on  *)
(* nothing, empties the buffer and leaves the last-finalized marker.       *)
C30_EmitsTrimmedBuffer ==
    /\ [][EmitStep =>
             /\ lastDelivered' = Trim(currentTranscript)
             /\ Len(lastDelivered') >= MinSendLen
             /\ lastSentTranscript' = lastDelivered'
             /\ currentTranscript' = <<>>]_vars
    /\ [][(FinalizeStep /\ Len(Trim(currentTranscript)) < MinSendLen) =>
             /\ outcome' = "short"
             /\ currentTranscript' = <<>>
             /\ UNCHANGED <<emits, lastDelivered, lastSentTranscript>>]_vars

\* after an utterance was emitted, a finalize discarded a short buffer
C30_Witness ==
    /\ outcome = "short"
    /\ currentTranscript = <<>>
    /\ lastSentTranscript # <<>>
    /\ lastDelivered = lastSentTranscript
    /\ sendTimers = {}

(* C31: a recognition event whose text is empty, or shorter than           *)
(* MinEventLen once trimmed, is discarded: the buffer, the last-finalized  *)
(* marker, the time of the last accepted event and the pending finalize    *)
(* countdowns are as they were, in either capture mode.                    *)
C31_NoiseLeavesStateAlone ==
    [][\A text \in NoiseTexts :
          UserTranscription(text) =>
              UNCHANGED <<currentTranscript, lastSentTranscript,
                          lastTranscriptAge, sendTimers>>]_vars

\* the avatar silent, text in the buffer, an utterance finalized before and a
\* countdown under way: the state in which the noise filter is what discards
\* an event, and which the discard leaves as it found it
C31_Witness ==
    /\ ~isSpeaking
    /\ currentTranscript # <<>>
    /\ lastSentTranscript # <<>>
    /\ lastTranscriptAge > 0
    /\ \E t \in sendTimers : t.tracked /\ t.left > 0

(* C32: an event that passes the noise filter and is, alone, the buffer    *)
(* when the finalize runs is handed on, if the avatar is silent and the    *)
(* trimmed text is not the last finalized one: the finalize has no         *)
(* stricter minimum length than the event filter.                          *)
C32_AcceptedEventIsLongEnough ==
    [][(/\ FinalizeStep
        /\ currentTranscript \in Texts
        /\ ~TooShortEvent(currentTranscript)
        /\ ~isSpeaking
        /\ Trim(currentTranscript) # lastSentTranscript)
          => /\ outcome' = "sent"
             /\ lastDelivered' = Trim(currentTranscript)]_vars

(* C33: at most one finalize countdown is live at any time, and it is the  *)
(* one whose handle sendTimeoutRef holds: every clearTimeout reaches it.   *)
C33_OneTrackedCountdown ==
    /\ Cardinality(sendTimers) <= 1
    /\ \A t \in sendTimers : t.tracked

\* a finalize found the avatar speaking and rescheduled itself: the deferred
\* countdown is the only live one
C33_Witness ==
    /\ outcome = "deferred"
    /\ isSpeaking
    /\ Cardinality(sendTimers) = 1
    /\ \A t \in sendTimers : t.kind = "defer" /\ t.tracked

(* C37: in manual mode an utterance is handed on only after a release of   *)
(* the gate and before the next acquisition: never while the gate is held  *)
(* and never before the first release.  No countdown is pending in either  *)
(* case, although events accepted while the gate is not held are merged    *)
(* into the buffer.                                                        *)
C37_EmitOnlyAfterRelease ==
    /\ [][(pushToTalkEnabled /\ EmitStep) =>
             (~prevPushToTalk /\ everReleased)]_vars
    /\ [](pushToTalkEnabled /\ (prevPushToTalk \/ ~everReleased) =>
             (sendTimers = {} /\ emits = 0))
    /\ [](pushToTalkEnabled /\ ~everReleased => lastDelivered = <<>>)

\* manual mode: the gate was released and not acquired again, and the
\* utterance was handed on
C37_Witness ==
    /\ pushToTalkEnabled
    /\ everReleased
    /\ ~prevPushToTalk
    /\ outcome = "sent"
    /\ emits = 1
    /\ lastDelivered # <<>>

(* C39: in automatic mode a finalize countdown is pending whenever the     *)
(* buffer holds text.  So the buffer does not keep text for ever: unless   *)
(* events keep being accepted or the avatar keeps speaking, a finalize     *)
(* runs and empties it, handing the text on or discarding it as too short  *)
(* or as a duplicate.                                                      *)
C39_BufferedTextHasCountdown ==
    /\ []((~pushToTalkEnabled /\ currentTranscript # <<>>) => Pending)
    /\ [][(~pushToTalkEnabled /\ currentTranscript # <<>>
              /\ currentTranscript' = <<>>) =>
             (FinalizeStep /\ outcome' \in {"sent", "short", "duplicate"})]_vars
    /\ []<>(\/ pushToTalkEnabled
            \/ currentTranscript = <<>>
            \/ isSpeaking
            \/ lastTranscriptAge = 0)

\* automatic mode: a finalize was deferred, the avatar has stopped speaking
\* and the deferred countdown is pending on the buffered text
C39_Witness ==
    /\ ~pushToTalkEnabled
    /\ outcome = "deferred"
    /\ ~isSpeaking
    /\ currentTranscript # <<>>
    /\ \E t \in sendTimers : t.kind = "defer" /\ t.tracked

----------------------------------------------------------------------------
(* Teardown of AvatarView: the cleanup of its mount effect clears the      *)
(* timer sendTimeoutRef holds and stops the avatar session.  Once the      *)
(* session is stopped its events no longer arrive and the effects of the   *)
(* component no longer run; the timers still live run when they are due.   *)
(* Every live finalize timer is the one sendTimeoutRef holds, so none is   *)
(* left to run after the cleanup.                                          *)

AvatarUnmount ==
    /\ ~unmounted
    /\ unmounted' = TRUE
    /\ sendTimers' = ClearTimeout(sendTimers)
    /\ UNCHANGED <<pushToTalkEnabled, prevPushToTalk, pttReleased, isSpeaking,
                   currentTranscript, lastSentTranscript, lastTranscriptAge,
                   graceTimers, avatarSpeaking, emits, lastDelivered, outcome,
                   cancelLen, freshRelease, refined>>
    /\ UNCHANGED <<histVars, mergeVars, wsVars, clientVars, orchVars>>

TeardownNext ==
    \/ ~unmounted /\ Next
    \/ AvatarUnmount
    \/ unmounted /\ GraceTimerFire
    \/ unmounted /\ Tick

TeardownSpec == Init /\ [][TeardownNext]_vars

(* C27: once AvatarView is torn down no timer of the session is pending:   *)
(* no finalize countdown, no deferred finalize, no speak-ended grace timer *)
(* and no reconnection timer; so none fires after the teardown.            *)
C27_TeardownCancelsTimers ==
    unmounted => (sendTimers = {} /\ graceTimers = <<>> /\ reconnectTimers = {})

----------------------------------------------------------------------------
(* The session channel: useWebSocket.                                      *)
(*                                                                         *)
(* A transport is a WebSocket object: CONNECTING, then OPEN, then CLOSING  *)
(* once close() was called on it; when it closes its close event runs      *)
(* onclose and it leaves sockets.  The open event and the close event of   *)
(* a transport run whether or not wsRef still holds it.  The channel has   *)
(* one duration, the backoff of 3000 ms; its time is counted in ticks of   *)
(* 1500 ms.                                                                *)

\* transports alive at the same time, reconnections awaited included
MaxSockets == 2

\* the messages the caller sends (the end_session update of endSession)
Messages == {"end_session"}

\* setTimeout(..., 3000) of ws.onclose
ReconnectTicks == 2

SocketIds == 1..MaxSockets

\* the ids of the transports not yet closed
LiveIds == {w.id : w \in sockets}

\* the transport with id i
Socket(i) == CHOOSE w \in sockets : w.id = i

\* wsRef.current?.readyState === WebSocket.OPEN
WsOpen == wsRef \in LiveIds /\ Socket(wsRef).readyState = "OPEN"

\* new WebSocket(`${url}/${sid}`): the transport takes the smallest free id
NewSocketId == CHOOSE i \in SocketIds \ LiveIds :
                   \A j \in SocketIds \ LiveIds : i <= j

NewSocket(sid) ==
    [id |-> NewSocketId, sid |-> sid, readyState |-> "CONNECTING"]

\* room is left for one more transport and for every pending reconnection
Room == Cardinality(sockets) + Cardinality(reconnectTimers) < MaxSockets

\* a live reconnection timer: the ticks left, and whether
\* reconnectTimeoutRef.current holds its handle
ReconnectTimer(n, left) == [n |-> n, left |-> left, tracked |-> TRUE]

\* reconnectTimeoutRef.current = setTimeout(..., 3000)
SetReconnect(ts) ==
    LET free == {n \in SocketIds : \A t \in ts : t.n # n}
        n == CHOOSE k \in free : \A j \in free : k <= j
    IN  {[t EXCEPT !.tracked = FALSE] : t \in ts}
            \cup {ReconnectTimer(n, ReconnectTicks)}

\* clearTimeout(reconnectTimeoutRef.current)
ClearReconnect(ts) == {t \in ts : ~t.tracked}

\* the slot SetReconnect gives the timer it arms
NewTimerSlot(ts) ==
    CHOOSE k \in SocketIds :
        /\ \A t \in ts : t.n # k
        /\ \A j \in SocketIds : (\A t \in ts : t.n # j) => k <= j

----------------------------------------------------------------------------
(* connect, as the caller and as the reconnection timer run it *)

\* the guard on an open transport is missing
ConnectCall_NoOpenCheck(overrideSessionId, by) ==
    LET sid == IF overrideSessionId # NoSession THEN overrideSessionId
               ELSE sessionId
    IN  IF sid = NoSession
        THEN /\ lastOp' = [op |-> by, result |-> "nosid"]
             /\ UNCHANGED <<sockets, wsRef, activeSessionId, lastSid>>
        ELSE /\ activeSessionId' = sid
             /\ sockets' = sockets \cup {NewSocket(sid)}
             /\ wsRef' = NewSocketId
             /\ lastSid' = sid
             /\ lastOp' = [op |-> by, result |-> "created"]

\* the caller's current identifier is preferred to the one passed
ConnectCall_PreferOption(overrideSessionId, by) ==
    LET sid == IF sessionId # NoSession THEN sessionId
               ELSE overrideSessionId
    IN  IF WsOpen
        THEN /\ lastOp' = [op |-> by, result |-> "noop"]
             /\ UNCHANGED <<sockets, wsRef, activeSessionId, lastSid>>
        ELSE IF sid = NoSession
        THEN /\ lastOp' = [op |-> by, result |-> "nosid"]
             /\ UNCHANGED <<sockets, wsRef, activeSessionId, lastSid>>
        ELSE /\ activeSessionId' = sid
             /\ sockets' = sockets \cup {NewSocket(sid)}
             /\ wsRef' = NewSocketId
             /\ lastSid' = sid
             /\ lastOp' = [op |-> by, result |-> "created"]

ConnectCall(overrideSessionId, by) ==
    LET sid == IF overrideSessionId # NoSession THEN overrideSessionId
               ELSE sessionId
    IN  IF WsOpen
        THEN /\ lastOp' = [op |-> by, result |-> "noop"]
             /\ UNCHANGED <<sockets, wsRef, activeSessionId, lastSid>>
        ELSE IF sid = NoSession
        THEN /\ lastOp' = [op |-> by, result |-> "nosid"]
             /\ UNCHANGED <<sockets, wsRef, activeSessionId, lastSid>>
        ELSE /\ activeSessionId' = sid
             /\ sockets' = sockets \cup {NewSocket(sid)}
             /\ wsRef' = NewSocketId
             /\ lastSid' = sid
             /\ lastOp' = [op |-> by, result |-> "created"]

\* the caller calls connect(overrideSessionId)
Connect(overrideSessionId) ==
    /\ Room
    /\ ConnectCall(overrideSessionId, "connect")
    /\ disconnected' = (disconnected /\ lastOp'.result # "created")
    /\ UNCHANGED <<sessionId, isConnected, callerConnected, reconnectTimers,
                   delivered, dropped, awaiting>>
    /\ UNCHANGED <<aggVars, inVars, clientVars, orchVars>>

\* a due reconnection timer runs its callback
ReconnectTimerFire(t) ==
    /\ t \in reconnectTimers
    /\ t.left = 0
    /\ reconnectTimers' = reconnectTimers \ {t}
    /\ IF activeSessionId # NoSession
       THEN /\ ConnectCall(activeSessionId, "reconnect")
            /\ awaiting' = awaiting \ {t.n}
       ELSE /\ lastOp' = [op |-> "reconnect", result |-> "idle"]
            /\ UNCHANGED <<sockets, wsRef, activeSessionId, lastSid, awaiting>>
    /\ UNCHANGED <<sessionId, isConnected, callerConnected, delivered,
                   dropped, disconnected>>
    /\ UNCHANGED <<aggVars, inVars, clientVars, orchVars>>

----------------------------------------------------------------------------
(* disconnect, also run when the hook unmounts *)

\* close() on the transport wsRef holds
CloseCall(ws) ==
    {IF w.id = wsRef /\ w.readyState \in {"CONNECTING", "OPEN"}
     THEN [w EXCEPT !.readyState = "CLOSING"] ELSE w : w \in ws}

\* the stored session identifier is kept (the hook before activeSessionIdRef)
Disconnect_KeepSessionId ==
    /\ reconnectTimers' = ClearReconnect(reconnectTimers)
    /\ UNCHANGED activeSessionId
    /\ sockets' = CloseCall(sockets)
    /\ wsRef' = NoSocket
    /\ isConnected' = FALSE
    /\ disconnected' = TRUE
    /\ awaiting' = {}
    /\ lastOp' = [op |-> "disconnect", result |-> "done"]
    /\ UNCHANGED <<sessionId, callerConnected, delivered, dropped, lastSid>>
    /\ UNCHANGED <<aggVars, inVars, clientVars, orchVars>>

\* the body of disconnect()
DisconnectCall ==
    /\ reconnectTimers' = ClearReconnect(reconnectTimers)
    /\ activeSessionId' = NoSession
    /\ sockets' = CloseCall(sockets)
    /\ wsRef' = NoSocket
    /\ isConnected' = FALSE
    /\ disconnected' = TRUE
    /\ awaiting' = {}
    /\ lastOp' = [op |-> "disconnect", result |-> "done"]

\* the caller calls disconnect()
Disconnect ==
    /\ DisconnectCall
    /\ UNCHANGED <<sessionId, callerConnected, delivered, dropped, lastSid>>
    /\ UNCHANGED <<aggVars, inVars, clientVars, orchVars>>

----------------------------------------------------------------------------
(* The events of a transport *)

\* ws.onopen
SocketOpen(i) ==
    /\ i \in LiveIds
    /\ Socket(i).readyState = "CONNECTING"
    /\ sockets' = (sockets \ {Socket(i)})
                      \cup {[Socket(i) EXCEPT !.readyState = "OPEN"]}
    /\ isConnected' = TRUE
    /\ callerConnected' = TRUE
    /\ UNCHANGED <<sessionId, wsRef, activeSessionId, reconnectTimers,
                   delivered, dropped, disconnected, awaiting, lastSid,
                   lastOp>>
    /\ UNCHANGED <<aggVars, inVars, clientVars, orchVars>>

\* the transport was closed by close(), not by the network
ClosedByCall(i) == Socket(i).readyState = "CLOSING"

\* no reconnection timer is armed
SocketClose_NoReconnect(i) ==
    /\ i \in LiveIds
    /\ sockets' = sockets \ {Socket(i)}
    /\ wsRef' = IF wsRef = i THEN ClosedSocket ELSE wsRef
    /\ isConnected' = FALSE
    /\ callerConnected' = FALSE
    /\ UNCHANGED <<reconnectTimers, awaiting>>
    /\ UNCHANGED <<sessionId, activeSessionId, delivered, dropped,
                   disconnected, lastSid, lastOp>>
    /\ UNCHANGED <<aggVars, inVars, clientVars, orchVars>>

\* ws.onclose; the transport is gone
SocketClose(i) ==
    /\ i \in LiveIds
    /\ sockets' = sockets \ {Socket(i)}
    /\ wsRef' = IF wsRef = i THEN ClosedSocket ELSE wsRef
    /\ isConnected' = FALSE
    /\ callerConnected' = FALSE
    /\ reconnectTimers' = SetReconnect(reconnectTimers)
    /\ awaiting' = IF ClosedByCall(i) \/ disconnected THEN awaiting
                   ELSE awaiting \cup {NewTimerSlot(reconnectTimers)}
    /\ UNCHANGED <<sessionId, activeSessionId, delivered, dropped,
                   disconnected, lastSid, lastOp>>
    /\ UNCHANGED <<aggVars, inVars, clientVars, orchVars>>

----------------------------------------------------------------------------
(* send; the caller may send a message any number of times *)

\* the message is handed to the transport whatever its readyState
Send_IgnoreReadyState(m) ==
    /\ m \in Messages
    /\ IF wsRef \in LiveIds
       THEN /\ delivered' = delivered \cup {m}
            /\ UNCHANGED dropped
       ELSE /\ dropped' = dropped \cup {m}
            /\ UNCHANGED delivered
    /\ UNCHANGED <<sessionId, sockets, wsRef, activeSessionId, isConnected,
                   callerConnected, reconnectTimers, disconnected, awaiting,
                   lastSid, lastOp>>
    /\ UNCHANGED <<aggVars, inVars, clientVars, orchVars>>

\* the body of send(m)
SendCall(m) ==
    IF WsOpen
    THEN /\ delivered' = delivered \cup {m}
         /\ UNCHANGED dropped
    ELSE /\ dropped' = dropped \cup {m}
         /\ UNCHANGED delivered

\* the caller calls send(m)
Send(m) ==
    /\ m \in Messages
    /\ SendCall(m)
    /\ UNCHANGED <<sessionId, sockets, wsRef, activeSessionId, isConnected,
                   callerConnected, reconnectTimers, disconnected, awaiting,
                   lastSid, lastOp>>
    /\ UNCHANGED <<aggVars, inVars, clientVars, orchVars>>

----------------------------------------------------------------------------
(* The caller's session identifier changes (SET_SESSION, RESET) *)

SessionIdChange(s) ==
    /\ s # sessionId
    /\ sessionId' = s
    /\ UNCHANGED <<sockets, wsRef, activeSessionId, isConnected,
                   callerConnected, reconnectTimers, delivered, dropped,
                   disconnected, awaiting, lastSid, lastOp>>
    /\ UNCHANGED <<aggVars, inVars, clientVars, orchVars>>

\* 1500 ms pass; no reconnection timer is due
WsTick ==
    /\ reconnectTimers # {}
    /\ \A t \in reconnectTimers : t.left > 0
    /\ reconnectTimers' = {[t EXCEPT !.left = @ - 1] : t \in reconnectTimers}
    /\ UNCHANGED <<sessionId, sockets, wsRef, activeSessionId, isConnected,
                   callerConnected, delivered, dropped, disconnected,
                   awaiting, lastSid, lastOp>>
    /\ UNCHANGED <<aggVars, inVars, clientVars, orchVars>>

----------------------------------------------------------------------------

\* the refs of a freshly mounted AvatarView, in the capture mode given
AggMounted(mode) ==
    /\ pushToTalkEnabled = mode
    /\ prevPushToTalk = FALSE
    /\ pttReleased = FALSE
    /\ isSpeaking = FALSE
    /\ currentTranscript = <<>>
    /\ lastSentTranscript = <<>>
    /\ lastTranscriptAge = MaxAge
    /\ sendTimers = {}
    /\ graceTimers = <<>>
    /\ avatarSpeaking = FALSE
    /\ emits = 0
    /\ lastDelivered = <<>>
    /\ outcome = "none"
    /\ cancelLen = 0
    /\ freshRelease = FALSE
    /\ refined = <<>>
    /\ unmounted = FALSE
    /\ everReleased = FALSE
    /\ mergeBuf = <<>>
    /\ mergePrev = <<>>
    /\ mergeText = <<>>
    /\ mergeCount = 0

\* the aggregator is left as mounted, in automatic mode
AggIdle == AggMounted(FALSE)

WsInit == AggIdle /\ WsIdle /\ ClientIdle /\ OrchIdle

WsNext ==
    \/ \E s \in SessionIds \cup {NoSession} : Connect(s)
    \/ \E t \in reconnectTimers : ReconnectTimerFire(t)
    \/ Disconnect
    \/ \E i \in SocketIds : SocketOpen(i)
    \/ \E i \in SocketIds : SocketClose(i)
    \/ \E m \in Messages : Send(m)
    \/ \E s \in SessionIds \cup {NoSession} : SessionIdChange(s)
    \/ WsTick

WsSpec == WsInit /\ [][WsNext]_vars

\* a due timer runs, and time passes
WsFairSpec ==
    /\ WsSpec
    /\ WF_vars(WsTick)
    /\ WF_vars(\E t \in reconnectTimers : ReconnectTimerFire(t))

WsTypeOK ==
    /\ sessionId \in SessionIds \cup {NoSession}
    /\ activeSessionId \in SessionIds \cup {NoSession}
    /\ lastSid \in SessionIds \cup {NoSession}
    /\ wsRef \in LiveIds \cup {NoSocket, ClosedSocket}
    /\ \A w \in sockets :
          /\ w.id \in SocketIds
          /\ w.sid \in SessionIds
          /\ w.readyState \in {"CONNECTING", "OPEN", "CLOSING"}
    /\ \A w1, w2 \in sockets : w1.id = w2.id => w1 = w2
    /\ \A t \in reconnectTimers : t.left \in 0..ReconnectTicks /\ t.n \in SocketIds
    /\ Cardinality(sockets) + Cardinality(reconnectTimers) <= MaxSockets
    /\ isConnected \in BOOLEAN
    /\ callerConnected \in BOOLEAN
    /\ disconnected \in BOOLEAN
    /\ delivered \subseteq Messages
    /\ dropped \subseteq Messages
    /\ awaiting \subseteq SocketIds

----------------------------------------------------------------------------
(* Steps the properties of the channel speak of *)

\* the step opens a transport
OpensTransport == ~(LiveIds' \subseteq LiveIds)

\* the caller calls connect
ConnectStep == \E s \in SessionIds \cup {NoSession} : Connect(s)

\* a reconnection timer runs
ReconnectStep == \E t \in reconnectTimers : ReconnectTimerFire(t)

\* a transport closes that close() was not called on
DropStep(i) == i \in LiveIds /\ ~ClosedByCall(i) /\ SocketClose(i)

\* the program state of the hook
hookVars == <<sockets, wsRef, activeSessionId, isConnected, callerConnected,
              reconnectTimers>>

(* C11: once disconnect() has run, no reconnection timer opens a          *)
(* transport, whether it was pending at the call or was armed by the       *)
(* closure of the transport disconnect() closed; the next transport is     *)
(* opened by a connect() of the caller.                                    *)
C11_NoReconnectAfterDisconnect ==
    /\ [][(disconnected /\ ReconnectStep) => UNCHANGED <<sockets, wsRef>>]_vars
    /\ [][(disconnected /\ OpensTransport) => ConnectStep]_vars
    /\ [][Disconnect =>
             /\ activeSessionId' = NoSession
             /\ \A t \in reconnectTimers' : ~t.tracked]_vars

\* after disconnect() the timer armed by the closure ran and opened nothing
C11_Witness ==
    /\ disconnected
    /\ lastOp = [op |-> "reconnect", result |-> "idle"]
    /\ sockets = {}
    /\ lastSid # NoSession

(* C12: when a transport closes that disconnect() did not close, the       *)
(* channel is flagged disconnected, onDisconnect is called and a           *)
(* reconnection timer of the full backoff is armed, whoever opened the     *)
(* transport.  Unless the caller has disconnected, the timer, when it      *)
(* runs, opens a transport if none is open; and it does run, unless        *)
(* disconnect() is called first: no reconnection stays awaited for ever.   *)
C12_DropReconnects ==
    /\ [][\A i \in SocketIds : DropStep(i) =>
             /\ ~isConnected'
             /\ ~callerConnected'
             /\ \E t \in reconnectTimers' \ reconnectTimers :
                   /\ t.left = ReconnectTicks
                   /\ ~disconnected => t.n \in awaiting']_vars
    /\ [][\A t \in reconnectTimers :
             (t.n \in awaiting /\ ReconnectTimerFire(t)) =>
                 /\ t.left = 0
                 /\ WsOpen \/ OpensTransport]_vars
    /\ \A n \in SocketIds : []<>(n \notin awaiting)

\* a dropped transport was replaced by the reconnection timer
C12_Witness ==
    /\ lastOp = [op |-> "reconnect", result |-> "created"]
    /\ ~disconnected
    /\ wsRef \in LiveIds
    /\ ~isConnected

(* C13: a transport opened by a reconnection timer carries the stored      *)
(* session identifier, which is the identifier of the transport opened     *)
(* last, whatever the caller's current identifier is.                      *)
C13_ReconnectUsesStoredId ==
    /\ [][(ReconnectStep /\ OpensTransport) =>
             \E w \in sockets' \ sockets :
                 /\ w.sid = activeSessionId
                 /\ w.sid = lastSid
                 /\ wsRef' = w.id
                 /\ UNCHANGED activeSessionId]_vars
    /\ [][activeSessionId' \in {NoSession, lastSid'}]_vars

\* a reconnection opened a transport while the caller's identifier is another one
C13_Witness ==
    /\ lastOp = [op |-> "reconnect", result |-> "created"]
    /\ wsRef \in LiveIds
    /\ Socket(wsRef).sid = activeSessionId
    /\ sessionId # NoSession
    /\ sessionId # activeSessionId

(* C14: send() while the transport wsRef holds is not open hands the       *)
(* message to no transport and leaves the hook's state and timers as they  *)
(* are; a refused message is not kept: a message reaches a transport only  *)
(* in a send() made while the transport is open.                           *)
C14_SendWhileClosedDrops ==
    /\ [][\A m \in Messages : (~WsOpen /\ Send(m)) =>
             /\ delivered' = delivered
             /\ m \in dropped'
             /\ UNCHANGED hookVars]_vars
    /\ [][delivered' # delivered =>
             \E m \in Messages : WsOpen /\ Send(m)]_vars

\* a message was refused, and a transport has opened since
C14_Witness ==
    /\ dropped # {}
    /\ WsOpen
    /\ delivered = {}

(* C15: connect(sessionId) while the transport wsRef holds is open with    *)
(* that identifier opens no transport and changes nothing.                 *)
C15_ConnectWhileOpenIsNoOp ==
    [][\A s \in SessionIds :
          (WsOpen /\ Socket(wsRef).sid = s /\ Connect(s)) =>
              /\ UNCHANGED hookVars
              /\ lastOp'.result = "noop"]_vars

\* connect was called on the open channel: one transport
C15_Witness ==
    /\ lastOp = [op |-> "connect", result |-> "noop"]
    /\ WsOpen
    /\ Cardinality(sockets) = 1
    /\ Socket(wsRef).sid = activeSessionId

\* the transports that are CONNECTING or OPEN
LiveTransports == {w \in sockets : w.readyState \in {"CONNECTING", "OPEN"}}

(* C34: the channel has at most one transport that is CONNECTING or OPEN,  *)
(* whatever the order of connect() calls, reconnection timers, open and    *)
(* close events and disconnect(): a connect() or a reconnection that runs  *)
(* while a transport is CONNECTING opens no second one.                    *)
C34_OneLiveTransport == Cardinality(LiveTransports) <= 1

(* C35: isConnected is true exactly when the transport wsRef holds is      *)
(* OPEN, so that send() hands a message on exactly when isConnected is     *)
(* true, also after the open and close events of transports wsRef no       *)
(* longer holds.                                                           *)
C35_ConnectedIffOpen == isConnected <=> WsOpen

(* C36: from disconnect() until the caller's next connect() no             *)
(* reconnection timer is pending: the close event of the transport that    *)
(* disconnect() closed arms none.                                          *)
C36_NoTimerWhileDisconnected == disconnected => reconnectTimers = {}

----------------------------------------------------------------------------
(* The inbound events of a transport: frames and errors.  A frame is the   *)
(* text of event.data, as a sequence of tokens.  The events leave the      *)
(* refs and the state of the hook as they are, so the specifications of    *)
(* the channel above do without them.  Here the caller connects with the   *)
(* identifier of the session, as useInterview.startSession does, and       *)
(* sends nothing.                                                          *)

\* event.data of the frames that arrive
Frames ==
    { <<"{", "type", ":", "error", "}">>,
      <<"{", "type", ":", "state_update", "}">>,
      <<"{", "type", ":">>,
      <<"oops">> }

\* JSON.parse(event.data): the message, or a SyntaxError thrown
JsonParse(data) ==
    IF /\ Len(data) = 5
       /\ data[1] = "{" /\ data[2] = "type" /\ data[3] = ":" /\ data[5] = "}"
    THEN [ok |-> TRUE, value |-> [type |-> data[4]]]
    ELSE [ok |-> FALSE]

\* the catch block tears the transport down
SocketMessage_CloseOnFault(i, data) ==
    /\ i \in LiveIds
    /\ Socket(i).readyState = "OPEN"
    /\ IF JsonParse(data).ok
       THEN /\ received' = JsonParse(data).value
            /\ frameFault' = IF frameFault = "none" THEN "none" ELSE "recovered"
            /\ UNCHANGED sockets
       ELSE /\ frameFault' = "dropped"
            /\ sockets' = (sockets \ {Socket(i)})
                              \cup {[Socket(i) EXCEPT !.readyState = "CLOSING"]}
            /\ UNCHANGED received
    /\ UNCHANGED <<sessionId, wsRef, activeSessionId, isConnected,
                   callerConnected, reconnectTimers, delivered, dropped,
                   disconnected, awaiting, lastSid, lastOp, errorNotified>>
    /\ UNCHANGED <<aggVars, clientVars, orchVars>>

\* ws.onmessage
SocketMessage(i, data) ==
    /\ i \in LiveIds
    /\ Socket(i).readyState = "OPEN"
    /\ IF JsonParse(data).ok
       THEN /\ received' = JsonParse(data).value
            /\ frameFault' = IF frameFault = "none" THEN "none" ELSE "recovered"
       ELSE /\ frameFault' = "dropped"
            /\ UNCHANGED received
    /\ UNCHANGED <<sessionId, sockets, wsRef, activeSessionId, isConnected,
                   callerConnected, reconnectTimers, delivered, dropped,
                   disconnected, awaiting, lastSid, lastOp, errorNotified>>
    /\ UNCHANGED <<aggVars, clientVars, orchVars>>

\* the error is handled as a closure
SocketError_Reconnects(i) ==
    /\ i \in LiveIds
    /\ errorNotified' = TRUE
    /\ isConnected' = FALSE
    /\ reconnectTimers' = SetReconnect(reconnectTimers)
    /\ UNCHANGED <<sessionId, sockets, wsRef, activeSessionId,
                   callerConnected, delivered, dropped,
                   disconnected, awaiting, lastSid, lastOp, received,
                   frameFault>>
    /\ UNCHANGED <<aggVars, clientVars, orchVars>>

\* ws.onerror
SocketError(i) ==
    /\ i \in LiveIds
    /\ errorNotified' = TRUE
    /\ UNCHANGED <<sessionId, sockets, wsRef, activeSessionId, isConnected,
                   callerConnected, reconnectTimers, delivered, dropped,
                   disconnected, awaiting, lastSid, lastOp, received,
                   frameFault>>
    /\ UNCHANGED <<aggVars, clientVars, orchVars>>

WsInNext ==
    \/ \E s \in SessionIds \cup {NoSession} : Connect(s)
    \/ \E t \in reconnectTimers : ReconnectTimerFire(t)
    \/ Disconnect
    \/ \E i \in SocketIds : SocketOpen(i)
    \/ \E i \in SocketIds : SocketClose(i)
    \/ WsTick
    \/ \E i \in SocketIds, data \in Frames : SocketMessage(i, data)
    \/ \E i \in SocketIds : SocketError(i)

WsInSpec == WsInit /\ [][WsInNext]_vars

WsInTypeOK ==
    /\ WsTypeOK
    /\ received \in {NoMessage, [type |-> "error"], [type |-> "state_update"]}
    /\ frameFault \in {"none", "dropped", "recovered"}
    /\ errorNotified \in BOOLEAN

\* a reconnection timer is armed
ArmsReconnect ==
    \E t \in reconnectTimers' \ reconnectTimers :
        t.tracked /\ t.left = ReconnectTicks

\* a transport closes
CloseStep == \E i \in SocketIds : SocketClose(i)

(* C22: an error event of a transport calls onError and nothing else: the  *)
(* connected flag, what the caller was told of the connection, the timers, *)
(* the stored session identifier, wsRef and the transports stay as they    *)
(* are.  A reconnection timer is armed by a closure only.                  *)
C22_ErrorOnlyNotifies ==
    /\ [][\A i \in SocketIds : SocketError(i) =>
             /\ errorNotified'
             /\ UNCHANGED <<hookVars, received, frameFault>>]_vars
    /\ [][ArmsReconnect => CloseStep]_vars

\* onError was called on the open channel: still connected, no timer armed
C22_Witness ==
    /\ errorNotified
    /\ WsOpen
    /\ isConnected
    /\ callerConnected
    /\ reconnectTimers = {}
    /\ activeSessionId = Socket(wsRef).sid

(* C23: a frame that JSON.parse rejects is dropped: onMessage is not       *)
(* called, the transport stays open, and the connected flag, the stored    *)
(* session identifier, wsRef and the timers stay as they are.  A frame     *)
(* that parses is handed to onMessage, after a dropped frame as before.    *)
C23_MalformedFrameDropped ==
    /\ [][\A i \in SocketIds, data \in Frames :
             (~JsonParse(data).ok /\ SocketMessage(i, data)) =>
                 /\ UNCHANGED <<hookVars, received, errorNotified>>
                 /\ Socket(i).readyState = "OPEN"]_vars
    /\ [][\A i \in SocketIds, data \in Frames :
             (JsonParse(data).ok /\ SocketMessage(i, data)) =>
                 /\ received' = JsonParse(data).value
                 /\ UNCHANGED hookVars]_vars

\* a frame was dropped, and a later frame was handed to onMessage
C23_Witness ==
    /\ frameFault = "recovered"
    /\ received # NoMessage
    /\ WsOpen
    /\ isConnected
    /\ reconnectTimers = {}

----------------------------------------------------------------------------
(* The client's session state: useInterview, with the typed input of       *)
(* MessageInput and the callbacks InterviewLayout passes down.  The        *)
(* messages that arrive are the server's: any message of the protocol, in  *)
(* any order.                                                              *)

\* longest transcript the inbound messages are allowed to build
MaxTranscript == 2

\* position of a phase in PhaseOrder
PhaseIndex(p) == CHOOSE i \in 1..Len(PhaseOrder) : PhaseOrder[i] = p

\* p is q, or the phase right after q
StepForward(q, p) == p = q \/ PhaseIndex(p) = PhaseIndex(q) + 1

\* payloads of transcript_entry
Entries == [role : {"interviewer", "candidate"}, phase : {"GREETING", "EVALUATION"}]

\* payloads of evaluation_result
EvaluationResults ==
    {[score |-> 90, passed |-> "true"], [score |-> 50, passed |-> "false"]}

\* the five kinds of WebSocketMessage
MessageKinds == {"state_update", "transcript_entry", "evaluation_result",
                 "avatar_speak", "error"}

\* the messages that arrive: those of the protocol, and one of a kind it lacks
InboundMessages ==
    [type : {"state_update"}, payload : Phases]
        \cup [type : {"transcript_entry"}, payload : Entries]
        \cup [type : {"evaluation_result"}, payload : EvaluationResults]
        \cup [type : {"avatar_speak", "error", "heartbeat"}, payload : {Null}]

\* what the user types into MessageInput
TypedValues == { <<" ">>, <<" ", "a", "b">> }

\* what the aggregator hands to onUserTranscript
Utterances == { <<"a", "b", "c">> }

\* InterviewLayout.controlsDisabled, ChatPanel.isInputDisabled
controlsDisabled == phase \in {"EVALUATION", "COMPLETED"}

\* ADD_TRANSCRIPT puts the entry in front
interviewReducer_Prepend(action) ==
    CASE action.type = "SET_SESSION" ->
            /\ sessionId' = action.payload
            /\ UNCHANGED <<phase, stateTranscript, isPushToTalkActive,
                           evaluationScore, passed>>
      [] action.type = "SET_PHASE" ->
            /\ phase' = action.payload
            /\ UNCHANGED <<sessionId, stateTranscript, isPushToTalkActive,
                           evaluationScore, passed>>
      [] action.type = "ADD_TRANSCRIPT" ->
            /\ stateTranscript' = <<action.payload>> \o stateTranscript
            /\ UNCHANGED <<sessionId, phase, isPushToTalkActive,
                           evaluationScore, passed>>
      [] action.type = "SET_PUSH_TO_TALK" ->
            /\ isPushToTalkActive' = action.payload
            /\ UNCHANGED <<sessionId, phase, stateTranscript,
                           evaluationScore, passed>>
      [] action.type = "SET_EVALUATION" ->
            /\ evaluationScore' = action.payload.score
            /\ passed' = action.payload.passed
            /\ phase' = "COMPLETED"
            /\ UNCHANGED <<sessionId, stateTranscript, isPushToTalkActive>>
      [] action.type = "RESET" ->
            /\ sessionId' = NoSession
            /\ phase' = "IDLE"
            /\ stateTranscript' = <<>>
            /\ isPushToTalkActive' = FALSE
            /\ evaluationScore' = NoScore
            /\ passed' = Null
      [] OTHER ->
            UNCHANGED <<sessionId, phase, stateTranscript,
                        isPushToTalkActive, evaluationScore, passed>>

\* interviewReducer
interviewReducer(action) ==
    CASE action.type = "SET_SESSION" ->
            /\ sessionId' = action.payload
            /\ UNCHANGED <<phase, stateTranscript, isPushToTalkActive,
                           evaluationScore, passed>>
      [] action.type = "SET_PHASE" ->
            /\ phase' = action.payload
            /\ UNCHANGED <<sessionId, stateTranscript, isPushToTalkActive,
                           evaluationScore, passed>>
      [] action.type = "ADD_TRANSCRIPT" ->
            /\ stateTranscript' = Append(stateTranscript, action.payload)
            /\ UNCHANGED <<sessionId, phase, isPushToTalkActive,
                           evaluationScore, passed>>
      [] action.type = "SET_PUSH_TO_TALK" ->
            /\ isPushToTalkActive' = action.payload
            /\ UNCHANGED <<sessionId, phase, stateTranscript,
                           evaluationScore, passed>>
      [] action.type = "SET_EVALUATION" ->
            /\ evaluationScore' = action.payload.score
            /\ passed' = action.payload.passed
            /\ phase' = "COMPLETED"
            /\ UNCHANGED <<sessionId, stateTranscript, isPushToTalkActive>>
      [] action.type = "RESET" ->
            /\ sessionId' = NoSession
            /\ phase' = "IDLE"
            /\ stateTranscript' = <<>>
            /\ isPushToTalkActive' = FALSE
            /\ evaluationScore' = NoScore
            /\ passed' = Null
      [] OTHER ->
            UNCHANGED <<sessionId, phase, stateTranscript,
                        isPushToTalkActive, evaluationScore, passed>>

\* the history of the phase, kept along a step of the same session
TrackPhase == forwardOnly' = (forwardOnly /\ StepForward(phase, phase'))

\* the history of the kinds, kept along the handling of a message
TrackKind(message) ==
    unknownSeen' = IF message.type \notin MessageKinds THEN "ignored"
                   ELSE IF unknownSeen = "none" THEN "none" ELSE "handled"

\* a message of no known kind resets the session state
HandleMessage_UnknownResets(message) ==
    /\ CASE message.type = "state_update" ->
               interviewReducer([type |-> "SET_PHASE", payload |-> message.payload])
         [] message.type = "transcript_entry" ->
               /\ Len(stateTranscript) < MaxTranscript
               /\ interviewReducer([type |-> "ADD_TRANSCRIPT", payload |-> message.payload])
         [] message.type = "evaluation_result" ->
               interviewReducer([type |-> "SET_EVALUATION", payload |-> message.payload])
         [] message.type \in {"avatar_speak", "error"} ->
               interviewReducer([type |-> "NONE"])
         [] OTHER ->
               /\ phase' = "IDLE"
               /\ stateTranscript' = <<>>
               /\ UNCHANGED <<sessionId, isPushToTalkActive, evaluationScore,
                              passed>>
    /\ TrackPhase
    /\ TrackKind(message)
    /\ UNCHANGED sent
    /\ UNCHANGED <<aggVars, hookRest, orchVars>>

\* useInterview.handleMessage
HandleMessage(message) ==
    /\ CASE message.type = "state_update" ->
               interviewReducer([type |-> "SET_PHASE", payload |-> message.payload])
         [] message.type = "transcript_entry" ->
               /\ Len(stateTranscript) < MaxTranscript
               /\ interviewReducer([type |-> "ADD_TRANSCRIPT", payload |-> message.payload])
         [] message.type = "evaluation_result" ->
               interviewReducer([type |-> "SET_EVALUATION", payload |-> message.payload])
         [] OTHER ->
               interviewReducer([type |-> "NONE"])
    /\ TrackPhase
    /\ TrackKind(message)
    /\ UNCHANGED sent
    /\ UNCHANGED <<aggVars, hookRest, orchVars>>

\* the candidate's turn is sent as an evaluation_result
sendCandidateMessage_AsEvaluation(content) ==
    /\ sent' = [type |-> "evaluation_result", role |-> "candidate",
                content |-> content, phase |-> phase]
    /\ UNCHANGED <<sessionId, phase, stateTranscript, isPushToTalkActive,
                   evaluationScore, passed, forwardOnly, unknownSeen>>

\* useInterview.sendCandidateMessage
sendCandidateMessage(content) ==
    /\ sent' = [type |-> "transcript_entry", role |-> "candidate",
                content |-> content, phase |-> phase]
    /\ UNCHANGED <<sessionId, phase, stateTranscript, isPushToTalkActive,
                   evaluationScore, passed, forwardOnly, unknownSeen>>

\* the aggregator finalizes an utterance: InterviewLayout's onUserTranscript
OnUserTranscript(text) ==
    /\ sessionId # NoSession
    /\ sendCandidateMessage(text)
    /\ UNCHANGED <<aggVars, hookRest, orchVars>>

\* MessageInput.handleSend on the typed value
MessageInputSend(value) ==
    /\ sessionId # NoSession
    /\ Trim(value) # <<>>
    /\ ~controlsDisabled
    /\ sendCandidateMessage(Trim(value))
    /\ UNCHANGED <<aggVars, hookRest, orchVars>>

\* useInterview.pushToTalkStart: it has no guard, and the handlers of the
\* microphone button reach it in every phase
PushToTalkStart ==
    /\ interviewReducer([type |-> "SET_PUSH_TO_TALK", payload |-> TRUE])
    /\ sent' = [type |-> "state_update", action |-> "ptt_start"]
    /\ UNCHANGED <<forwardOnly, unknownSeen>>
    /\ UNCHANGED <<aggVars, hookRest, orchVars>>

\* useInterview.pushToTalkStop: no guard either
PushToTalkStop ==
    /\ interviewReducer([type |-> "SET_PUSH_TO_TALK", payload |-> FALSE])
    /\ sent' = [type |-> "state_update", action |-> "ptt_stop"]
    /\ UNCHANGED <<forwardOnly, unknownSeen>>
    /\ UNCHANGED <<aggVars, hookRest, orchVars>>

\* useInterview.startSession, once the session was created
StartSession(sid) ==
    /\ sessionId = NoSession
    /\ interviewReducer([type |-> "SET_SESSION", payload |-> sid])
    /\ UNCHANGED <<sent, forwardOnly, unknownSeen>>
    /\ UNCHANGED <<aggVars, hookRest, orchVars>>

\* useInterview.endSession
EndSession ==
    /\ sessionId # NoSession
    /\ sent' = [type |-> "state_update", action |-> "end_session"]
    /\ SendCall("end_session")
    /\ DisconnectCall
    /\ interviewReducer([type |-> "RESET"])
    /\ forwardOnly' = TRUE
    /\ unknownSeen' = "none"
    /\ UNCHANGED <<callerConnected, lastSid, inVars>>
    /\ UNCHANGED <<aggVars, orchVars>>

ClientInit == AggIdle /\ WsIdle /\ ClientIdle /\ OrchIdle

ClientNext ==
    \/ \E message \in InboundMessages : HandleMessage(message)
    \/ \E text \in Utterances : OnUserTranscript(text)
    \/ \E value \in TypedValues : MessageInputSend(value)
    \/ PushToTalkStart
    \/ PushToTalkStop
    \/ \E sid \in SessionIds : StartSession(sid)
    \/ EndSession

ClientSpec == ClientInit /\ [][ClientNext]_vars

ClientTypeOK ==
    /\ phase \in Phases
    /\ Len(stateTranscript) <= MaxTranscript
    /\ \A k \in 1..Len(stateTranscript) : stateTranscript[k] \in Entries
    /\ isPushToTalkActive \in BOOLEAN
    /\ evaluationScore \in {NoScore, 50, 90}
    /\ passed \in {Null, "true", "false"}
    /\ sent.type \in {"none", "state_update", "transcript_entry"}
    /\ forwardOnly \in BOOLEAN
    /\ unknownSeen \in {"none", "ignored", "handled"}
    /\ sessionId \in SessionIds \cup {NoSession}

----------------------------------------------------------------------------
(* Steps the properties of the session state speak of *)

\* a message of the server is handled
MessageStep == \E message \in InboundMessages : HandleMessage(message)

\* a candidate entry is appended to the transcript
CandidateAppended ==
    /\ Len(stateTranscript') = Len(stateTranscript) + 1
    /\ stateTranscript'[Len(stateTranscript')].role = "candidate"

\* a candidate turn is handed to the channel
CandidateSent ==
    /\ \/ \E text \in Utterances : OnUserTranscript(text)
       \/ \E value \in TypedValues : MessageInputSend(value)
    /\ sent'.type = "transcript_entry"

(* C16: within a session the phase the client records moves forward one    *)
(* step at a time, whatever messages arrive: the phases it goes through    *)
(* are a prefix of IDLE, GREETING, TECHNICAL, EVALUATION, COMPLETED.       *)
C16_PhaseForwardOnly == forwardOnly

(* C17: once the recorded phase is COMPLETED, no event but the end of the  *)
(* session changes the phase or appends to the transcript.                 *)
C17_CompletedIsFinal ==
    [][(phase = "COMPLETED" /\ ~EndSession) =>
          UNCHANGED <<phase, stateTranscript>>]_vars

(* C20: while the recorded phase is EVALUATION no candidate turn is        *)
(* accepted: none is handed to the channel and none is appended to the     *)
(* transcript.                                                             *)
C20_NoCandidateTurnInEvaluation ==
    [][phase = "EVALUATION" => ~CandidateSent /\ ~CandidateAppended]_vars

(* C21: whenever the recorded phase is COMPLETED, an evaluation result     *)
(* (score and pass flag) was received in this session; an error message    *)
(* does not move the phase.                                                *)
C21_CompletedHasResult ==
    phase = "COMPLETED" => (evaluationScore # NoScore /\ passed # Null)

\* InterviewState, as useInterview keeps it
sessionState == <<sessionId, phase, stateTranscript, isPushToTalkActive,
                  evaluationScore, passed>>

\* s is a prefix of t
IsPrefix(s, t) == Len(s) <= Len(t) /\ SubSeq(t, 1, Len(s)) = s

(* C24: a message of none of the five known kinds changes nothing of the   *)
(* session state and sends nothing; the message handled right after it is  *)
(* handled as its kind says.                                               *)
C24_UnknownKindIgnored ==
    /\ [][\A message \in InboundMessages :
             (message.type \notin MessageKinds /\ HandleMessage(message)) =>
                 UNCHANGED <<sessionState, sent>>]_vars
    /\ [][\A message \in InboundMessages :
             (unknownSeen = "ignored" /\ HandleMessage(message)) =>
                 /\ message.type = "state_update" => phase' = message.payload
                 /\ message.type = "transcript_entry" =>
                        stateTranscript' = Append(stateTranscript, message.payload)
                 /\ message.type = "evaluation_result" =>
                        /\ evaluationScore' = message.payload.score
                        /\ passed' = message.payload.passed
                        /\ phase' = "COMPLETED"]_vars

\* a message of an unknown kind was ignored, then messages were handled
C24_Witness ==
    /\ unknownSeen = "handled"
    /\ phase = "TECHNICAL"
    /\ Len(stateTranscript) = 1
    /\ evaluationScore = NoScore

(* C25: every message the client hands to send() is a state_update or a    *)
(* transcript_entry.                                                       *)
C25_ClientSendsTwoKinds ==
    [][sent' # sent => sent'.type \in {"state_update", "transcript_entry"}]_vars

\* the client has sent a candidate turn
C25_Witness ==
    /\ sent.type = "transcript_entry"
    /\ sent.role = "candidate"
    /\ sent.phase = "TECHNICAL"

(* C26: but for the reset at the end of a session, every step leaves the   *)
(* transcript a prefix of what it becomes, and a transcript_entry message  *)
(* appends its entry, and only that, at the end.                           *)
C26_TranscriptAppendOnly ==
    /\ [][~EndSession => IsPrefix(stateTranscript, stateTranscript')]_vars
    /\ [][\A message \in InboundMessages :
             (message.type = "transcript_entry" /\ HandleMessage(message)) =>
                 stateTranscript' = Append(stateTranscript, message.payload)]_vars

\* two different entries were appended, in this order
C26_Witness ==
    /\ Len(stateTranscript) = 2
    /\ stateTranscript[1].role = "interviewer"
    /\ stateTranscript[2].role = "candidate"

(* C38: while the recorded phase is EVALUATION or COMPLETED the client      *)
(* hands no candidate transcript_entry to the channel, whether the         *)
(* utterance was typed or is a finalized voice transcript.                 *)
C38_NoCandidateSendWhenDisabled ==
    [][controlsDisabled => ~CandidateSent]_vars

----------------------------------------------------------------------------
(* The orchestrator's phase machine.  Its code (backend, orchestrator.py)  *)
(* is not part of the sources at hand; the machine is the one the          *)
(* specification describes: IDLE -[session start]-> GREETING -[cap or      *)
(* explicit advance]-> TECHNICAL -[cap]-> EVALUATION -[scoring complete]-> *)
(* COMPLETED.  A phase-advance signal names the phase to advance to.       *)

\* GREETING: max 3 exchanges
GreetingCap == 3

\* TECHNICAL: max 10 exchanges
TechnicalCap == 10

ExchangeCap(p) == IF p = "GREETING" THEN GreetingCap ELSE TechnicalCap

\* the phase after p
NextPhase(p) == PhaseOrder[PhaseIndex(p) + 1]

\* the transition to phase p is recorded as an event of its own
Transition(p, cause) ==
    /\ orchPhase' = p
    /\ transitions' = Append(transitions, [to |-> p, cause |-> cause])

\* the session starts
SessionStart ==
    /\ IF orchPhase = "IDLE"
       THEN /\ Transition("GREETING", "start")
            /\ lastSignal' = [signal |-> "start", result |-> "done"]
       ELSE /\ UNCHANGED <<orchPhase, transitions>>
            /\ lastSignal' = [signal |-> "start", result |-> "noop"]
    /\ UNCHANGED <<exchanges, turns>>
    /\ UNCHANGED <<aggVars, wsVars, clientVars>>

\* reaching the cap advances nothing
CandidateTurn_NoAutoAdvance ==
    /\ IF orchPhase \in {"GREETING", "TECHNICAL"}
       THEN /\ exchanges' = [exchanges EXCEPT ![orchPhase] = @ + 1]
            /\ turns' = turns + 1
            /\ UNCHANGED <<orchPhase, transitions>>
            /\ lastSignal' = [signal |-> "turn", result |-> "counted"]
       ELSE /\ UNCHANGED <<orchPhase, exchanges, turns, transitions>>
            /\ lastSignal' = [signal |-> "turn", result |-> "rejected"]
    /\ UNCHANGED <<aggVars, wsVars, clientVars>>

\* a candidate turn arrives
CandidateTurn ==
    /\ IF orchPhase \in {"GREETING", "TECHNICAL"}
       THEN /\ exchanges' = [exchanges EXCEPT ![orchPhase] = @ + 1]
            /\ turns' = turns + 1
            /\ IF exchanges[orchPhase] + 1 >= ExchangeCap(orchPhase)
               THEN /\ Transition(NextPhase(orchPhase), "auto")
                    /\ lastSignal' = [signal |-> "turn", result |-> "advanced"]
               ELSE /\ UNCHANGED <<orchPhase, transitions>>
                    /\ lastSignal' = [signal |-> "turn", result |-> "counted"]
       ELSE /\ UNCHANGED <<orchPhase, exchanges, turns, transitions>>
            /\ lastSignal' = [signal |-> "turn", result |-> "rejected"]
    /\ UNCHANGED <<aggVars, wsVars, clientVars>>

\* the signal advances from any phase that has a next one
Advance_IgnoreTarget(target) ==
    /\ IF orchPhase \in {"GREETING", "TECHNICAL"}
       THEN /\ Transition(NextPhase(orchPhase), "explicit")
            /\ lastSignal' = [signal |-> target, result |-> "advanced"]
       ELSE /\ UNCHANGED <<orchPhase, transitions>>
            /\ lastSignal' = [signal |-> target, result |-> "noop"]
    /\ UNCHANGED <<exchanges, turns>>
    /\ UNCHANGED <<aggVars, wsVars, clientVars>>

\* a phase-advance signal to phase target arrives
Advance(target) ==
    /\ IF orchPhase = "GREETING" /\ target = "TECHNICAL"
       THEN /\ Transition(target, "explicit")
            /\ lastSignal' = [signal |-> target, result |-> "advanced"]
       ELSE /\ UNCHANGED <<orchPhase, transitions>>
            /\ lastSignal' = [signal |-> target, result |-> "noop"]
    /\ UNCHANGED <<exchanges, turns>>
    /\ UNCHANGED <<aggVars, wsVars, clientVars>>

\* the scoring collaborator returns
ScoringComplete ==
    /\ orchPhase = "EVALUATION"
    /\ Transition("COMPLETED", "scored")
    /\ lastSignal' = [signal |-> "scored", result |-> "done"]
    /\ UNCHANGED <<exchanges, turns>>
    /\ UNCHANGED <<aggVars, wsVars, clientVars>>

OrchInit == AggIdle /\ WsIdle /\ ClientIdle /\ OrchIdle

OrchNext ==
    \/ SessionStart
    \/ CandidateTurn
    \/ \E target \in Phases : Advance(target)
    \/ ScoringComplete

OrchSpec == OrchInit /\ [][OrchNext]_vars

OrchTypeOK ==
    /\ orchPhase \in Phases
    /\ exchanges["GREETING"] \in 0..GreetingCap
    /\ exchanges["TECHNICAL"] \in 0..TechnicalCap
    /\ turns \in 0..(GreetingCap + TechnicalCap)
    /\ Len(transitions) <= Len(PhaseOrder) - 1

\* the events of cause c that announce phase p
EventsTo(p, c) ==
    {k \in 1..Len(transitions) : transitions[k] = [to |-> p, cause |-> c]}

(* C18: a candidate turn in GREETING or TECHNICAL adds one to that phase's *)
(* exchange counter; the turn that brings the counter to the cap (3, 10)   *)
(* is followed at once by one auto-advance event to the next phase, and    *)
(* no other turn emits one.                                                *)
C18_CapAutoAdvancesOnce ==
    /\ [][(CandidateTurn /\ orchPhase \in {"GREETING", "TECHNICAL"}) =>
             /\ exchanges'[orchPhase] = exchanges[orchPhase] + 1
             /\ IF exchanges'[orchPhase] = ExchangeCap(orchPhase)
                THEN /\ transitions' = Append(transitions,
                            [to |-> NextPhase(orchPhase), cause |-> "auto"])
                     /\ orchPhase' = NextPhase(orchPhase)
                ELSE UNCHANGED <<transitions, orchPhase>>]_vars
    /\ [](\A p \in {"GREETING", "TECHNICAL"} :
             /\ exchanges[p] <= ExchangeCap(p)
             /\ Cardinality(EventsTo(NextPhase(p), "auto")) =
                    (IF exchanges[p] = ExchangeCap(p) THEN 1 ELSE 0))

\* the third turn of GREETING has just advanced the session to TECHNICAL
C18_Witness ==
    /\ orchPhase = "TECHNICAL"
    /\ exchanges["GREETING"] = GreetingCap
    /\ lastSignal = [signal |-> "turn", result |-> "advanced"]
    /\ EventsTo("TECHNICAL", "auto") # {}

(* C19: a phase-advance signal that is repeated, or that names a phase     *)
(* other than the one the session may advance to, changes neither phase,   *)
(* counters nor transcript and emits no event; the same signal sent twice  *)
(* in succession makes one transition.                                     *)
C19_AdvanceIdempotent ==
    /\ [][\A target \in Phases :
             (Advance(target) /\ ~(orchPhase = "GREETING" /\ target = "TECHNICAL")) =>
                 /\ UNCHANGED <<orchPhase, exchanges, turns, transitions>>
                 /\ lastSignal'.result = "noop"]_vars
    /\ [][\A target \in Phases :
             (Advance(target) /\ lastSignal = [signal |-> target, result |-> "advanced"]) =>
                 UNCHANGED <<orchPhase, exchanges, turns, transitions>>]_vars
    /\ [](Cardinality({k \in 1..Len(transitions) :
                          transitions[k].cause = "explicit"}) <= 1)

\* the advance to TECHNICAL was sent again and changed nothing
C19_Witness ==
    /\ orchPhase = "TECHNICAL"
    /\ lastSignal = [signal |-> "TECHNICAL", result |-> "noop"]
    /\ EventsTo("TECHNICAL", "explicit") # {}
    /\ Len(transitions) = 2

----------------------------------------------------------------------------
(* The push-to-talk merge taken alone, on texts longer than PrefixLen:     *)
(* mergeBuf stands for currentTranscriptRef.  The avatar is silent, the    *)
(* events arrive before the gate is released or while it is held, and the  *)
(* gate is acquired again before the countdown of a release has elapsed.   *)

\* events merged between two gate acquisitions
MaxMergeEvents == 3

\* n times the letter a
Long(n) == [i \in 1..n |-> "a"]

\* the texts the recognizer delivers here
MergeTexts ==
    { <<"a">>,
      <<"a", "b">>,
      <<"A", "B", "c">>,
      <<"c", "d", "e">>,
      Long(PrefixLen),
      <<"A">> \o Long(PrefixLen - 2) \o <<"b">>,
      Long(PrefixLen) \o <<"b">>,
      Long(PrefixLen) \o <<"c", "d">>,
      Long(PrefixLen - 1) \o <<"c", "d", "e">> }

\* an event that arrives before the gate is released: no countdown is
\* pending, and the handler only merges the text into the buffer
MergeEvent(text) ==
    /\ pushToTalkEnabled
    /\ ~isSpeaking
    /\ ~TooShortEvent(text)
    /\ ~pttReleased
    /\ mergeCount < MaxMergeEvents
    /\ mergeCount' = mergeCount + 1
    /\ mergeBuf' = MergePtt(mergeBuf, text)
    /\ mergePrev' = mergeBuf
    /\ mergeText' = text
    /\ UNCHANGED <<pushToTalkEnabled, prevPushToTalk, pttReleased, isSpeaking,
                   currentTranscript, lastSentTranscript, lastTranscriptAge,
                   sendTimers, graceTimers, avatarSpeaking, emits,
                   lastDelivered, outcome, cancelLen, freshRelease, refined,
                   unmounted, histVars>>
    /\ UNCHANGED <<wsVars, clientVars, orchVars>>

\* isPushToTalkActive goes from false to true: the buffer is emptied
MergePress ==
    /\ pushToTalkEnabled
    /\ ~prevPushToTalk
    /\ mergeBuf' = <<>>
    /\ mergePrev' = <<>>
    /\ mergeText' = <<>>
    /\ mergeCount' = 0
    /\ lastSentTranscript' = <<>>
    /\ pttReleased' = FALSE
    /\ sendTimers' = ClearTimeout(sendTimers)
    /\ prevPushToTalk' = TRUE
    /\ emits' = 0
    /\ outcome' = "none"
    /\ cancelLen' = 0
    /\ freshRelease' = FALSE
    /\ refined' = <<>>
    /\ UNCHANGED <<pushToTalkEnabled, isSpeaking, currentTranscript,
                   lastTranscriptAge, graceTimers, avatarSpeaking,
                   lastDelivered, unmounted, histVars>>
    /\ UNCHANGED <<wsVars, clientVars, orchVars>>

\* isPushToTalkActive goes from true to false: the countdown of the release
\* is armed, and the gate can be acquired again
MergeRelease ==
    /\ pushToTalkEnabled
    /\ prevPushToTalk
    /\ pttReleased' = TRUE
    /\ sendTimers' = SetTimeout(ClearTimeout(sendTimers), "release", PttTicks)
    /\ prevPushToTalk' = FALSE
    /\ freshRelease' = (mergeBuf # <<>>)
    /\ refined' = <<>>
    /\ everReleased' = TRUE
    /\ UNCHANGED <<pushToTalkEnabled, isSpeaking, currentTranscript,
                   lastSentTranscript, lastTranscriptAge, graceTimers,
                   avatarSpeaking, emits, lastDelivered, outcome, cancelLen,
                   unmounted>>
    /\ UNCHANGED <<mergeVars, wsVars, clientVars, orchVars>>

\* AvatarView mounted in push-to-talk mode
MergeInit == AggMounted(TRUE) /\ WsIdle /\ ClientIdle /\ OrchIdle

MergeNext ==
    \/ \E text \in MergeTexts : MergeEvent(text)
    \/ MergePress
    \/ MergeRelease

MergeSpec == MergeInit /\ [][MergeNext]_vars

\* t begins with p, letter case apart
StartsWithIgnoringCase(t, p) ==
    /\ Len(p) <= Len(t)
    /\ \A i \in 1..Len(p) : ToLowerChar(t[i]) = ToLowerChar(p[i])

\* the first n characters of b
FirstChars(b, n) == [i \in 1..Min(n, Len(b)) |-> b[i]]

\* the merge as the claim words it
MergeReference(b, t) ==
    IF b # <<>> /\ ~StartsWithIgnoringCase(t, FirstChars(b, 20))
    THEN b \o <<" ">> \o t
    ELSE IF Len(t) > Len(b) THEN t ELSE b

(* C28: in push-to-talk mode every accepted event with text T leaves the   *)
(* buffer B as B + ' ' + T if B is not empty and T does not begin, letter  *)
(* case apart, with the first 20 characters of B; otherwise as T if T is   *)
(* longer than B, and as B if not.                                         *)
C28_MergeIsReference ==
    [][\A text \in MergeTexts :
          MergeEvent(text) => mergeBuf' = MergeReference(mergeBuf, text)]_vars

\* a buffer longer than 20 characters was replaced by a longer text that
\* shares its first 20 characters and no more
C28_Witness ==
    /\ Len(mergePrev) > PrefixLen
    /\ mergeBuf = mergeText
    /\ Len(mergeText) > Len(mergePrev)
    /\ ~StartsWith(ToLowerCase(mergeText), ToLowerCase(mergePrev))

====
